---- MODULE Spec2Model ----
(***************************************************************************)
(* Model of the scriptable interception pipeline of cc-switch:             *)
(*   src-tauri/src/request_hook_script.rs  (view builders, sandbox run,    *)
(*                                          merge and validation)          *)
(*   src-tauri/src/proxy/header_filter.rs  (header denylist)               *)
(*   src-tauri/src/commands/import_export.rs (WebDAV request preparation,  *)
(*                                          upload and download)           *)
(*   src-tauri/src/backup_bundle.rs        (restore of a backup)           *)
(*                                                                         *)
(* One behaviour of Spec is one call of execute_on_request_script or       *)
(* execute_on_response_script, taken statement by statement.               *)
(***************************************************************************)
EXTENDS Integers, Sequences, FiniteSets, TLC

VARIABLES
    stage,        \* "request": execute_on_request_script, "response": execute_on_response_script
    transport,    \* the axum HeaderMap the baseline was built from, in iteration order
    script,       \* what script_code evaluates to and what its handler does
    context,      \* the caller's RequestHookContext (borrowed, &)
    baseline,     \* the caller's HookRequest / HookResponse (borrowed, &)
    pc,           \* position inside the run function
    jsContext,    \* the handler's first argument inside the interpreter
    jsView,       \* the handler's second argument inside the interpreter
    resultJs,     \* result_js: the value the handler returned
    resultStr,    \* result_str: the JSON text of result_js
    resultValue,  \* result_value: the decoded serde_json::Value
    outcome,      \* what the run function returned
    calls,        \* number of times the handler was called
    merges,       \* number of times merge_hook_request / merge_hook_response was called
    spin,         \* parity of the iterations of a handler that is still running
    call,         \* one call of a helper function: its arguments and its return value
    runs,         \* concurrent script invocations, each with its own interpreter
    lifecycle,    \* one proxied exchange as the forwarder drives it
    restore,      \* one call of restore_backup_from_bytes
    archive,      \* one call of restore_full_backup_archive and the files it touches
    upload,       \* one call of upload_config_backup_to_webdav and the requests it sends
    download      \* one call of download_config_backup_from_webdav

HookVars == <<stage, transport, script, context, baseline, pc, jsContext, jsView,
              resultJs, resultStr, resultValue, outcome, calls, merges, spin>>

\* the variables a run of the hook leaves alone
Elsewhere == <<call, runs, lifecycle, restore, archive, upload, download>>

vars == <<HookVars, Elsewhere>>

(***************************************************************************)
(* Bounds of the model.                                                    *)
(***************************************************************************)
MaxTransport == 2      \* header instances in the transport HeaderMap
MaxHeaders == 3        \* header instances folded by one call of build_header_string_map
MaxPieces == 3         \* name=value pieces in the query of a URL
MaxQueries == 2        \* entries of a query map
MaxInvocations == 2    \* run functions executing at the same time
MaxStarted == 3        \* run functions started in one behaviour
MaxExchanges == 2      \* proxied requests in flight at the same time
MaxRaw == 4            \* characters of a remote directory text
MaxBytes == 4          \* bytes of a backup given to restore_backup_from_bytes

(***************************************************************************)
(* Program constants.                                                      *)
(***************************************************************************)
U16Max == 65535
ByteP == 80            \* b'P'
ByteK == 75            \* b'K'

(***************************************************************************)
(* Names and ASCII lower-casing.  The map keys of the hook are atoms;      *)
(* str::to_ascii_lowercase on them is the table of the keys that contain   *)
(* an upper-case letter.                                                   *)
(***************************************************************************)
to_ascii_lowercase(name) ==
    CASE name = "X-A"  -> "x-a"
      [] name = "HOST" -> "host"
      [] name = "Keep" -> "keep"
      [] OTHER         -> name

HEADER_BLACKLIST ==
    { "authorization", "x-api-key", "x-goog-api-key",
      "host", "content-length", "transfer-encoding",
      "accept-encoding",
      "x-forwarded-host", "x-forwarded-port", "x-forwarded-proto", "forwarded",
      "cf-connecting-ip", "cf-ipcountry", "cf-ray", "cf-visitor",
      "true-client-ip", "fastly-client-ip", "x-azure-clientip", "x-azure-fdid",
      "x-azure-ref", "akamai-origin-hop", "x-akamai-config-log-detail",
      "x-request-id", "x-correlation-id", "x-trace-id", "x-amzn-trace-id",
      "x-b3-traceid", "x-b3-spanid", "x-b3-parentspanid", "x-b3-sampled",
      "traceparent", "tracestate",
      "anthropic-beta", "anthropic-version",
      "x-forwarded-for", "x-real-ip" }

(***************************************************************************)
(* A &str as the characters it is made of.  Spell gives the characters of  *)
(* the names the model uses; a name outside the table is one opaque        *)
(* character.                                                              *)
(***************************************************************************)
Spell(name) ==
    CASE name = "authorization" -> <<"a", "u", "t", "h", "o", "r", "i", "z", "a", "t", "i", "o", "n">>
      [] name = "x-api-key" -> <<"x", "-", "a", "p", "i", "-", "k", "e", "y">>
      [] name = "x-goog-api-key" -> <<"x", "-", "g", "o", "o", "g", "-", "a", "p", "i", "-", "k", "e", "y">>
      [] name = "host" -> <<"h", "o", "s", "t">>
      [] name = "content-length" -> <<"c", "o", "n", "t", "e", "n", "t", "-", "l", "e", "n", "g", "t", "h">>
      [] name = "transfer-encoding" -> <<"t", "r", "a", "n", "s", "f", "e", "r", "-", "e", "n", "c", "o", "d", "i", "n", "g">>
      [] name = "accept-encoding" -> <<"a", "c", "c", "e", "p", "t", "-", "e", "n", "c", "o", "d", "i", "n", "g">>
      [] name = "x-forwarded-host" -> <<"x", "-", "f", "o", "r", "w", "a", "r", "d", "e", "d", "-", "h", "o", "s", "t">>
      [] name = "x-forwarded-port" -> <<"x", "-", "f", "o", "r", "w", "a", "r", "d", "e", "d", "-", "p", "o", "r", "t">>
      [] name = "x-forwarded-proto" -> <<"x", "-", "f", "o", "r", "w", "a", "r", "d", "e", "d", "-", "p", "r", "o", "t", "o">>
      [] name = "forwarded" -> <<"f", "o", "r", "w", "a", "r", "d", "e", "d">>
      [] name = "cf-connecting-ip" -> <<"c", "f", "-", "c", "o", "n", "n", "e", "c", "t", "i", "n", "g", "-", "i", "p">>
      [] name = "cf-ipcountry" -> <<"c", "f", "-", "i", "p", "c", "o", "u", "n", "t", "r", "y">>
      [] name = "cf-ray" -> <<"c", "f", "-", "r", "a", "y">>
      [] name = "cf-visitor" -> <<"c", "f", "-", "v", "i", "s", "i", "t", "o", "r">>
      [] name = "true-client-ip" -> <<"t", "r", "u", "e", "-", "c", "l", "i", "e", "n", "t", "-", "i", "p">>
      [] name = "fastly-client-ip" -> <<"f", "a", "s", "t", "l", "y", "-", "c", "l", "i", "e", "n", "t", "-", "i", "p">>
      [] name = "x-azure-clientip" -> <<"x", "-", "a", "z", "u", "r", "e", "-", "c", "l", "i", "e", "n", "t", "i", "p">>
      [] name = "x-azure-fdid" -> <<"x", "-", "a", "z", "u", "r", "e", "-", "f", "d", "i", "d">>
      [] name = "x-azure-ref" -> <<"x", "-", "a", "z", "u", "r", "e", "-", "r", "e", "f">>
      [] name = "akamai-origin-hop" -> <<"a", "k", "a", "m", "a", "i", "-", "o", "r", "i", "g", "i", "n", "-", "h", "o", "p">>
      [] name = "x-akamai-config-log-detail" -> <<"x", "-", "a", "k", "a", "m", "a", "i", "-", "c", "o", "n", "f", "i", "g", "-", "l", "o", "g", "-", "d", "e", "t", "a", "i", "l">>
      [] name = "x-request-id" -> <<"x", "-", "r", "e", "q", "u", "e", "s", "t", "-", "i", "d">>
      [] name = "x-correlation-id" -> <<"x", "-", "c", "o", "r", "r", "e", "l", "a", "t", "i", "o", "n", "-", "i", "d">>
      [] name = "x-trace-id" -> <<"x", "-", "t", "r", "a", "c", "e", "-", "i", "d">>
      [] name = "x-amzn-trace-id" -> <<"x", "-", "a", "m", "z", "n", "-", "t", "r", "a", "c", "e", "-", "i", "d">>
      [] name = "x-b3-traceid" -> <<"x", "-", "b", "3", "-", "t", "r", "a", "c", "e", "i", "d">>
      [] name = "x-b3-spanid" -> <<"x", "-", "b", "3", "-", "s", "p", "a", "n", "i", "d">>
      [] name = "x-b3-parentspanid" -> <<"x", "-", "b", "3", "-", "p", "a", "r", "e", "n", "t", "s", "p", "a", "n", "i", "d">>
      [] name = "x-b3-sampled" -> <<"x", "-", "b", "3", "-", "s", "a", "m", "p", "l", "e", "d">>
      [] name = "traceparent" -> <<"t", "r", "a", "c", "e", "p", "a", "r", "e", "n", "t">>
      [] name = "tracestate" -> <<"t", "r", "a", "c", "e", "s", "t", "a", "t", "e">>
      [] name = "anthropic-beta" -> <<"a", "n", "t", "h", "r", "o", "p", "i", "c", "-", "b", "e", "t", "a">>
      [] name = "anthropic-version" -> <<"a", "n", "t", "h", "r", "o", "p", "i", "c", "-", "v", "e", "r", "s", "i", "o", "n">>
      [] name = "x-forwarded-for" -> <<"x", "-", "f", "o", "r", "w", "a", "r", "d", "e", "d", "-", "f", "o", "r">>
      [] name = "x-real-ip" -> <<"x", "-", "r", "e", "a", "l", "-", "i", "p">>
      [] name = "HOST" -> <<"H", "O", "S", "T">>
      [] name = "X-A" -> <<"X", "-", "A">>
      [] name = "Keep" -> <<"K", "e", "e", "p">>
      [] name = "x-a" -> <<"x", "-", "a">>
      [] name = "keep" -> <<"k", "e", "e", "p">>
      [] name = "remove_me" -> <<"r", "e", "m", "o", "v", "e", "_", "m", "e">>
      [] OTHER -> <<name>>

UpperCaseLetters ==
    <<"A", "B", "C", "D", "E", "F", "G", "H", "I", "J", "K", "L", "M",
      "N", "O", "P", "Q", "R", "S", "T", "U", "V", "W", "X", "Y", "Z">>

LowerCaseLetters ==
    <<"a", "b", "c", "d", "e", "f", "g", "h", "i", "j", "k", "l", "m",
      "n", "o", "p", "q", "r", "s", "t", "u", "v", "w", "x", "y", "z">>

\* u8::to_ascii_lowercase: 'A'..='Z' to 'a'..='z', every other byte unchanged
ascii_lower(c) ==
    IF \E i \in 1..Len(UpperCaseLetters) : UpperCaseLetters[i] = c
    THEN LowerCaseLetters[CHOOSE i \in 1..Len(UpperCaseLetters) : UpperCaseLetters[i] = c]
    ELSE c

\* str::eq_ignore_ascii_case: same length and the same bytes after ASCII
\* lower-casing (eq_exact is the comparison that tells the cases apart)
eq_exact(a, b) == a = b

eq_ignore_ascii_case(a, b) ==
    /\ Len(a) = Len(b)
    /\ \A i \in 1..Len(a) : ascii_lower(a[i]) = ascii_lower(b[i])

\* HEADER_BLACKLIST.iter().any(|h| name.eq_ignore_ascii_case(h)); name is spelled
is_header_blacklisted(name) ==
    \E h \in HEADER_BLACKLIST : eq_ignore_ascii_case(name, Spell(h))

(***************************************************************************)
(* Maps (HashMap<String, String>, JS objects, serde_json::Map) are         *)
(* functions from a finite set of keys.                                    *)
(***************************************************************************)
EmptyMap == [k \in {} |-> ""]

MapInsert(m, k, v) == [x \in (DOMAIN m) \cup {k} |-> IF x = k THEN v ELSE m[x]]

MapRemove(m, k) == [x \in (DOMAIN m) \ {k} |-> m[x]]

(***************************************************************************)
(* build_header_string_map: lower-case each name, comma-join repeats.      *)
(***************************************************************************)
\* stringify_header_value: the text of a value that is UTF-8, and the lossy
\* decoding (U+FFFD for each bad byte) of one that is not
stringify_header_value(value) ==
    CASE value = "0xFF" -> "U+FFFD"
      [] OTHER          -> value

\* .and_modify(|existing| { existing.push_str(","); existing.push_str(&value_str) })
overwrite(existing, value_str) == value_str

and_modify(existing, value_str) == existing \o "," \o value_str

RECURSIVE FoldHeaders(_, _)
FoldHeaders(headers, output) ==
    IF headers = <<>> THEN output
    ELSE LET name      == to_ascii_lowercase(Head(headers)[1])
             value_str == stringify_header_value(Head(headers)[2])
             next      == IF name \in DOMAIN output
                          THEN MapInsert(output, name, and_modify(output[name], value_str))
                          ELSE MapInsert(output, name, value_str)
         IN  FoldHeaders(Tail(headers), next)

build_header_string_map(headers) == FoldHeaders(headers, EmptyMap)

(***************************************************************************)
(* Values.  A JS value, a JSON text and a serde_json::Value are different  *)
(* things: JS has undefined, functions, NaN and values JSON.stringify      *)
(* throws on; serde_json splits numbers into PosInt, NegInt and Float.     *)
(*                                                                         *)
(* A view-shaped object has the four fields the merges read; a field is a  *)
(* record [k |-> kind, ...].  Kind "absent" means the key is not there.    *)
(***************************************************************************)
Str(s)  == [t |-> "string", s |-> s]
NumEntry   == [t |-> "number", s |-> "5"]
NullEntry  == [t |-> "null", s |-> ""]
UndefEntry == [t |-> "undefined", s |-> ""]

MapField(kind, m) == [k |-> kind, m |-> m]
BodyField(kind, v) == [k |-> kind, v |-> v]
CodeField(kind, n) == [k |-> kind, n |-> n]

AbsentMap  == MapField("absent", EmptyMap)
AbsentBody == BodyField("absent", "")
AbsentCode == CodeField("absent", 0)

EmptyObject == [code |-> AbsentCode, headers |-> AbsentMap,
                queries |-> AbsentMap, body |-> AbsentBody]

JsValue(type, obj) == [t |-> type, o |-> obj]
JsUndefined == JsValue("undefined", EmptyObject)

(***************************************************************************)
(* Host to script: serde_json::to_string followed by ctx.json_parse.       *)
(* Every Rust string becomes a JS string, a u16 becomes a JS number.       *)
(***************************************************************************)
StringMapToJs(m) == MapField("object", [k \in DOMAIN m |-> Str(m[k])])

RequestToJs(request) ==
    [code    |-> AbsentCode,
     headers |-> StringMapToJs(request.headers),
     queries |-> StringMapToJs(request.queries),
     body    |-> BodyField("value", request.body)]

ResponseToJs(response) ==
    [code    |-> CodeField("integer", response.code),
     headers |-> StringMapToJs(response.headers),
     queries |-> AbsentMap,
     body    |-> BodyField("value", response.body)]

ContextToJs(ctx) ==
    [app |-> ctx.app, method |-> ctx.method, url |-> ctx.url,
     incomingHeaders |-> StringMapToJs(ctx.incoming_headers)]

(***************************************************************************)
(* Script to host, first half: ctx.json_stringify (JSON.stringify).        *)
(*   undefined, function             -> no text at all (None)              *)
(*   null, NaN, Infinity             -> the text null                      *)
(*   BigInt, cyclic object           -> exception                          *)
(*   property whose value is undefined -> left out of the text             *)
(***************************************************************************)
StringifyEntries(m) ==
    [k \in {x \in DOMAIN m : m[x].t # "undefined"} |-> m[k]]

StringifyMapField(f) ==
    CASE f.k = "undefined" -> AbsentMap
      [] f.k = "object"    -> MapField("object", StringifyEntries(f.m))
      [] OTHER             -> f

StringifyBodyField(f) ==
    CASE f.k = "undefined" -> AbsentBody
      [] f.k = "nan"       -> BodyField("value", "null")
      [] OTHER             -> f

StringifyCodeField(f) ==
    CASE f.k = "undefined" -> AbsentCode
      [] f.k = "integer"   -> CodeField("int", f.n)
      [] f.k = "fraction"  -> CodeField("float", f.n)
      [] f.k = "huge"      -> CodeField("float", f.n)
      [] f.k = "nan"       -> CodeField("null", 0)
      [] OTHER             -> f

StringifyObject(o) ==
    [code    |-> StringifyCodeField(o.code),
     headers |-> StringifyMapField(o.headers),
     queries |-> StringifyMapField(o.queries),
     body    |-> StringifyBodyField(o.body)]

JsonNone      == [r |-> "none", j |-> JsValue("null", EmptyObject)]
JsonException == [r |-> "exception", j |-> JsValue("null", EmptyObject)]
JsonText(j)   == [r |-> "text", j |-> j]

json_stringify(v) ==
    CASE v.t \in {"undefined", "function"} -> JsonNone
      [] v.t \in {"bigint", "cyclic"}      -> JsonException
      [] v.t \in {"null", "nan"}           -> JsonText(JsValue("null", EmptyObject))
      [] v.t = "object"                    -> JsonText(JsValue("object", StringifyObject(v.o)))
      [] OTHER                             -> JsonText(JsValue(v.t, EmptyObject))

(***************************************************************************)
(* Script to host, second half: serde_json::from_str.  It fails on a text  *)
(* nested deeper than its recursion limit; an integer literal becomes      *)
(* PosInt or NegInt, any other number a Float.                             *)
(***************************************************************************)
ParseCodeField(f) ==
    CASE f.k = "int" /\ f.n >= 0 -> CodeField("posint", f.n)
      [] f.k = "int" /\ f.n < 0  -> CodeField("negint", f.n)
      [] OTHER                   -> f

from_str(j) ==
    IF j.t = "deep"
    THEN [ok |-> FALSE, v |-> JsValue("null", EmptyObject)]
    ELSE [ok |-> TRUE,
          v  |-> IF j.t = "object"
                 THEN JsValue("object", [j.o EXCEPT !.code = ParseCodeField(j.o.code)])
                 ELSE j]

(***************************************************************************)
(* Errors.  The run functions return Err(String); the kind of an error is  *)
(* read off the message text, and path is the field path the message       *)
(* quotes (empty when it quotes none).                                     *)
(*   "Runtime"           创建 JS 运行时失败 / 创建 JS 上下文失败           *)
(*   "ScriptCompile"     解析脚本失败（脚本必须 eval 成一个对象）          *)
(*   "Serialization"     序列化 context 失败 / 序列化 request 失败         *)
(*   "ArgumentParse"     解析 context JSON 失败 / 解析 request JSON 失败   *)
(*   "HandlerInvocation" 执行 onRequest 失败                               *)
(*   "ResultStringify"   序列化 onRequest 返回值失败                       *)
(*   "Deserialization"   解析 onRequest 返回值 JSON 失败                   *)
(*   "Shape"             onRequest 必须返回一个对象                        *)
(*   "FieldType"         ... 必须是对象 / 必须是字符串 / 必须是数字        *)
(*   "Range"             response.code 超出有效范围                        *)
(***************************************************************************)
Error(kind, path) == [kind |-> kind, path |-> path]
NoError == Error("", <<>>)
NoView  == [none |-> TRUE]

FieldOk(v)  == [ok |-> TRUE, v |-> v, err |-> NoError]
FieldErr(e) == [ok |-> FALSE, v |-> NoView, err |-> e]

MergeOk(view) == [ok |-> TRUE, view |-> view, err |-> NoError]
MergeErr(e)   == [ok |-> FALSE, view |-> NoView, err |-> e]

(***************************************************************************)
(* The loop over a returned headers / queries object.                      *)
(* serde_json::Map iterates in key order or, with preserve_order, in the   *)
(* order the script inserted the keys: the first non-string entry met, and *)
(* the entry that wins when two keys become equal, depend on that order.   *)
(***************************************************************************)
HeaderKeyAsIs(k) == k

HeaderKey(k) == to_ascii_lowercase(k)

QueryKey(k) == k

EntryErrorsNone(m, path) == {}

EntryErrors(m, path) ==
    { Error("FieldType", Append(path, k)) : k \in {x \in DOMAIN m : m[x].t # "string"} }

\* keys[k] is the key under which the entry k of m is inserted into out
CollectEntries(m, keys) ==
    LET D == { keys[k] : k \in DOMAIN m }
        V == { m[k].s : k \in DOMAIN m }
    IN  { out \in [D -> V] :
            \A x \in D : \E k \in DOMAIN m : keys[k] = x /\ out[x] = m[k].s }

MapFieldResults(field, original, keys, path) ==
    IF field.k = "absent" THEN { FieldOk(original) }
    ELSE IF field.k # "object" THEN { FieldErr(Error("FieldType", path)) }
    ELSE IF EntryErrors(field.m, path) # {}
         THEN { FieldErr(e) : e \in EntryErrors(field.m, path) }
         ELSE { FieldOk(out) : out \in CollectEntries(field.m, keys) }

\* lines 213-231 and 282-300: the headers of the merged view
HeaderFieldResultsPerKey(field, original, path) ==
    { IF r.ok
      THEN FieldOk([k \in (DOMAIN original) \cup (DOMAIN r.v) |->
                      IF k \in DOMAIN r.v THEN r.v[k] ELSE original[k]])
      ELSE r : r \in MapFieldResults(field, original,
                                     [k \in DOMAIN field.m |-> HeaderKey(k)], path) }

HeaderFieldResults(field, original, path) ==
    MapFieldResults(field, original, [k \in DOMAIN field.m |-> HeaderKey(k)], path)

\* lines 233-251: the queries of the merged view
QueryFieldResults(field, original, path) ==
    MapFieldResults(field, original, [k \in DOMAIN field.m |-> QueryKey(k)], path)

MergedBodyDefaultNull(field, original) ==
    IF field.k = "absent" THEN "null" ELSE field.v

MergedBody(field, original) ==
    IF field.k = "absent" THEN original ELSE field.v

u16_try_from(n) == [ok |-> n <= U16Max, v |-> n]

CodeResults(field, original) ==
    IF field.k = "absent" THEN { FieldOk(original) }
    ELSE IF field.k # "posint"
         THEN { FieldErr(Error("FieldType", <<"response", "code">>)) }
         ELSE IF u16_try_from(field.n).ok
              THEN { FieldOk(u16_try_from(field.n).v) }
              ELSE { FieldErr(Error("Range", <<"response", "code">>)) }

(***************************************************************************)
(* merge_hook_request and merge_hook_response: the set of results the      *)
(* function can return for this result and this original.                  *)
(***************************************************************************)
merge_hook_request(result, original) ==
    IF result.t # "object" THEN { MergeErr(Error("Shape", <<>>)) }
    ELSE
      LET obj == result.o
          hs  == HeaderFieldResults(obj.headers, original.headers, <<"request", "headers">>)
          qs  == QueryFieldResults(obj.queries, original.queries, <<"request", "queries">>)
      IN  { MergeErr(h.err) : h \in {x \in hs : ~x.ok} }
          \cup
          { MergeErr(q.err) : q \in {x \in qs : (~x.ok) /\ (\E h \in hs : h.ok)} }
          \cup
          { MergeOk([headers |-> h.v, queries |-> q.v,
                     body |-> MergedBody(obj.body, original.body)]) :
              h \in {x \in hs : x.ok}, q \in {x \in qs : x.ok} }

merge_hook_response(result, original) ==
    IF result.t # "object" THEN { MergeErr(Error("Shape", <<>>)) }
    ELSE
      LET obj == result.o
          cs  == CodeResults(obj.code, original.code)
          hs  == HeaderFieldResults(obj.headers, original.headers, <<"response", "headers">>)
      IN  { MergeErr(c.err) : c \in {x \in cs : ~x.ok} }
          \cup
          { MergeErr(h.err) : h \in {x \in hs : (~x.ok) /\ (\E c \in cs : c.ok)} }
          \cup
          { MergeOk([code |-> c.v, headers |-> h.v,
                     body |-> MergedBody(obj.body, original.body)]) :
              c \in {x \in cs : x.ok}, h \in {x \in hs : x.ok} }

(***************************************************************************)
(* Scripts.  script_code is untrusted text; the model keeps what the run   *)
(* functions can observe of it:                                            *)
(*   eval        what ctx.eval(script_code) gives: "object", "notObject"   *)
(*               (a number, a string ...) or "throws"                      *)
(*   onRequest / onResponse   what the property of that name is:           *)
(*               "function", "absent", "notFunction", "getterThrows"       *)
(*   handler     what the function does when called: one in-place edit of  *)
(*               its second argument, then it throws, returns that         *)
(*               argument, or returns some other value                     *)
(***************************************************************************)
Edit(op, key, entry, code, body) ==
    [op |-> op, key |-> key, entry |-> entry, code |-> code, body |-> body]

NoEdit == Edit("none", "", UndefEntry, AbsentCode, "")

\* the handler's edits of its first argument, the context object
ContextOps == {"setContextUrl", "deleteIncomingHeader", "setIncomingHeader"}

ApplyContextEdit(jsCtx, e) ==
    CASE e.op = "setContextUrl" -> [jsCtx EXCEPT !.url = e.body]
      [] e.op = "deleteIncomingHeader" ->
            [jsCtx EXCEPT !.incomingHeaders.m = MapRemove(@, e.key)]
      [] e.op = "setIncomingHeader" ->
            [jsCtx EXCEPT !.incomingHeaders.m = MapInsert(@, e.key, e.entry)]
      [] OTHER -> jsCtx

\* the handler's edits of its second argument, the view; the two arguments are
\* parsed from two JSON texts and share no object (ApplyEditAliased: the
\* view's headers and the context's incomingHeaders are one object)
ApplyEditAliased(view, e) ==
    CASE e.op = "deleteIncomingHeader" -> [view EXCEPT !.headers.m = MapRemove(@, e.key)]
      [] e.op = "setIncomingHeader" -> [view EXCEPT !.headers.m = MapInsert(@, e.key, e.entry)]
      [] OTHER -> view

ApplyEdit(view, e) ==
    CASE e.op = "deleteHeader" /\ view.headers.k = "object" ->
            [view EXCEPT !.headers.m = MapRemove(@, e.key)]
      [] e.op = "setHeader" /\ view.headers.k = "object" ->
            [view EXCEPT !.headers.m = MapInsert(@, e.key, e.entry)]
      [] e.op = "deleteQuery" /\ view.queries.k = "object" ->
            [view EXCEPT !.queries.m = MapRemove(@, e.key)]
      [] e.op = "setQuery" /\ view.queries.k = "object" ->
            [view EXCEPT !.queries.m = MapInsert(@, e.key, e.entry)]
      [] e.op = "setBody" -> [view EXCEPT !.body = BodyField("value", e.body)]
      [] e.op = "setCode" -> [view EXCEPT !.code = e.code]
      [] e.op = "deleteHeaders" -> [view EXCEPT !.headers = AbsentMap]
      [] OTHER -> view

\* the context object as a returned value: an object that has none of the
\* fields code, headers, queries and body
ContextAsResult(jsCtx) == JsValue("object", EmptyObject)

Handler(edit, returns, value) == [edit |-> edit, returns |-> returns, value |-> value]

Edits ==
    { NoEdit,
      Edit("deleteHeader", "x-a", UndefEntry, AbsentCode, ""),
      Edit("setHeader", "X-A", Str("9"), AbsentCode, ""),
      Edit("setHeader", "x-new", Str("n"), AbsentCode, ""),
      Edit("setHeader", "x-a", NumEntry, AbsentCode, ""),
      Edit("deleteHeaders", "", UndefEntry, AbsentCode, ""),
      Edit("deleteQuery", "remove_me", UndefEntry, AbsentCode, ""),
      Edit("setQuery", "foo", Str("bar"), AbsentCode, ""),
      Edit("setBody", "", UndefEntry, AbsentCode, "{ok:false}"),
      Edit("setCode", "", UndefEntry, CodeField("integer", 404), ""),
      Edit("setCode", "", UndefEntry, CodeField("integer", U16Max + 1), "") }

ContextEdits ==
    { Edit("setContextUrl", "", UndefEntry, AbsentCode, "https://elsewhere.example/"),
      Edit("deleteIncomingHeader", "x-a", UndefEntry, AbsentCode, ""),
      Edit("setIncomingHeader", "x-a", Str("changed"), AbsentCode, "") }

HeaderChoices ==
    { AbsentMap,
      MapField("undefined", EmptyMap),
      MapField("string", EmptyMap),
      MapField("array", EmptyMap),
      MapField("object", EmptyMap),
      MapField("object", [k \in {"X-A"} |-> Str("9")]),
      MapField("object", [k \in {"X-A", "x-a"} |-> IF k = "x-a" THEN Str("1") ELSE Str("9")]),
      MapField("object", [k \in {"host"} |-> Str("h2")]),
      MapField("object", [k \in {"x-a"} |-> NumEntry]),
      MapField("object", [k \in {"x-a", "host"} |-> IF k = "x-a" THEN Str("1") ELSE NumEntry]),
      MapField("object", [k \in {"x-a", "host"} |-> IF k = "x-a" THEN NumEntry ELSE NullEntry]),
      MapField("object", [k \in {"x-a", "host"} |-> IF k = "x-a" THEN UndefEntry ELSE Str("h")]) }

QueryChoices ==
    { AbsentMap,
      MapField("null", EmptyMap),
      MapField("object", EmptyMap),
      MapField("object", [k \in {"foo"} |-> Str("bar")]),
      MapField("object", [k \in {"keep", "Keep"} |-> IF k = "keep" THEN Str("yes") ELSE Str("no")]),
      MapField("object", [k \in {"foo"} |-> NumEntry]) }

BodyChoices ==
    { AbsentBody, BodyField("undefined", ""), BodyField("nan", ""),
      BodyField("value", "{ok:false}") }

CodeChoices ==
    { AbsentCode, CodeField("undefined", 0), CodeField("nan", 0),
      CodeField("null", 0), CodeField("string", 0),
      CodeField("fraction", 404), CodeField("huge", 0) }
    \cup { CodeField("integer", n) : n \in {-1, 0, 404, U16Max, U16Max + 1, U16Max + 1 + 404} }

ReturnedObjects(st) ==
    IF st = "request"
    THEN { [code |-> c, headers |-> h, queries |-> q, body |-> b] :
             c \in {AbsentCode, CodeField("string", 0)},
             h \in HeaderChoices, q \in QueryChoices, b \in BodyChoices }
    ELSE { [code |-> c, headers |-> h, queries |-> q, body |-> b] :
             c \in CodeChoices, h \in HeaderChoices,
             q \in {AbsentMap, MapField("null", EmptyMap)}, b \in BodyChoices }

OtherValues ==
    { JsValue(t, EmptyObject) :
        t \in {"undefined", "null", "function", "string", "number", "nan",
               "boolean", "array", "bigint", "cyclic", "deep"} }

Handlers(st) ==
    { Handler(e, "view", JsUndefined) : e \in Edits }
    \cup { Handler(e, "value", v) : e \in Edits,
             v \in {JsUndefined, JsValue("null", EmptyObject)} }
    \cup { Handler(NoEdit, "value", v) : v \in OtherValues }
    \cup { Handler(NoEdit, "value", JsValue("object", o)) : o \in ReturnedObjects(st) }
    \cup { Handler(e, "throw", JsUndefined) : e \in {NoEdit, Edit("setBody", "", UndefEntry, AbsentCode, "{ok:false}")} }
    \cup { Handler(e, r, JsUndefined) : e \in ContextEdits, r \in {"view", "context", "throw"} }
    \cup { Handler(NoEdit, "context", JsUndefined) }

DeleteAndReturn == Handler(Edit("deleteHeader", "x-a", UndefEntry, AbsentCode, ""), "view", JsUndefined)

Script(eval, onRequest, onResponse, handler) ==
    [eval |-> eval, onRequest |-> onRequest, onResponse |-> onResponse, handler |-> handler]

Scripts(st) ==
    { Script(e, "function", "function", DeleteAndReturn) : e \in {"notObject", "throws"} }
    \cup { Script("object", a, b, DeleteAndReturn) :
             a \in {"function", "absent", "notFunction", "getterThrows"},
             b \in {"function", "absent", "notFunction", "getterThrows"} }
    \cup { Script("object", IF st = "request" THEN "function" ELSE "absent",
                            IF st = "response" THEN "function" ELSE "absent", h) :
             h \in Handlers(st) }

(***************************************************************************)
(* What a run function returns: Result<Option<View>, String>.              *)
(***************************************************************************)
Pending     == [tag |-> "Pending", view |-> NoView, err |-> NoError]
OkNone      == [tag |-> "OkNone",  view |-> NoView, err |-> NoError]
OkSome(v)   == [tag |-> "OkSome",  view |-> v,      err |-> NoError]
Err(e)      == [tag |-> "Err",     view |-> NoView, err |-> e]

FailSwallowed(kind) == OkNone

Fail(kind) == Err(Error(kind, <<>>))

HandlerName(st) == IF st = "request" THEN "onRequest" ELSE "onResponse"

GetProperty(config, name) ==
    IF name = "onRequest" THEN config.onRequest ELSE config.onResponse

GetFunctionUnchecked(config, name) == GetProperty(config, name) # "absent"

GetFunction(config, name) == GetProperty(config, name) = "function"

IsNullTextNever(text) == FALSE

IsNullText(text) == text.t = "null"

ViewToJs(st, view) == IF st = "request" THEN RequestToJs(view) ELSE ResponseToJs(view)

Merge(st, result, original) ==
    IF st = "request" THEN merge_hook_request(result, original)
                      ELSE merge_hook_response(result, original)

(***************************************************************************)
(* Initial states: the arguments of one call.  The baseline headers are    *)
(* what build_header_string_map made of the transport headers.             *)
(***************************************************************************)
TransportPairs == { <<"x-a", "1">>, <<"host", "h">> }

Transports == UNION { [1..n -> TransportPairs] : n \in 0..MaxTransport }

IncomingTransport == << <<"x-a", "1">>, <<"x-a", "2">> >>

BaselineQueries ==
    { EmptyMap,
      [k \in {"remove_me", "keep"} |-> IF k = "keep" THEN "yes" ELSE "1"] }

BaselineCodes == { 200, U16Max }

Baselines(st, tr) ==
    IF st = "request"
    THEN { [headers |-> build_header_string_map(tr), queries |-> q, body |-> "{ok:true}"] :
             q \in BaselineQueries }
    ELSE { [code |-> c, headers |-> build_header_string_map(tr), body |-> "{ok:true}"] :
             c \in BaselineCodes }

\* the parts of the program that take no part in a behaviour
Idle == [idle |-> TRUE]

ElsewhereIdle ==
    /\ call = Idle
    /\ runs = Idle
    /\ lifecycle = Idle
    /\ restore = Idle
    /\ archive = Idle
    /\ upload = Idle
    /\ download = Idle

CallerContext ==
    [app |-> "codex", method |-> "POST", url |-> "https://api.openai.com/v1/responses",
     incoming_headers |-> build_header_string_map(IncomingTransport)]

NoJsView == EmptyObject
NoJsContext == [app |-> "", method |-> "", url |-> "", incomingHeaders |-> AbsentMap]
NoText == JsValue("none", EmptyObject)

Init ==
    /\ stage \in {"request", "response"}
    /\ transport \in Transports
    /\ script \in Scripts(stage)
    /\ context = CallerContext
    /\ baseline \in Baselines(stage, transport)
    /\ pc = "Start"
    /\ jsContext = NoJsContext
    /\ jsView = NoJsView
    /\ resultJs = JsUndefined
    /\ resultStr = NoText
    /\ resultValue = NoText
    /\ outcome = Pending
    /\ calls = 0
    /\ merges = 0
    /\ spin = 0
    /\ ElsewhereIdle

(***************************************************************************)
(* The run function, statement by statement.  Both run functions have the  *)
(* same statements; stage selects the handler name and the merge.          *)
(***************************************************************************)
Inputs == <<stage, transport, script, context, baseline>>

\* Runtime::new() and Context::full(&runtime)
CreateRuntime ==
    /\ pc = "Start"
    /\ \E created \in BOOLEAN :
         IF created
         THEN pc' = "Created" /\ UNCHANGED outcome
         ELSE pc' = "Failed" /\ outcome' = Fail("Runtime")
    /\ UNCHANGED <<Elsewhere, spin, Inputs, jsContext, jsView, resultJs, resultStr, resultValue, calls, merges>>

\* let config: rquickjs::Object = ctx.eval(script_code)...?
EvalScript ==
    /\ pc = "Created"
    /\ IF script.eval = "object"
       THEN pc' = "Evaluated" /\ UNCHANGED outcome
       ELSE pc' = "Failed" /\ outcome' = Fail("ScriptCompile")
    /\ UNCHANGED <<Elsewhere, spin, Inputs, jsContext, jsView, resultJs, resultStr, resultValue, calls, merges>>

\* config.get("onRequest").ok(); let Some(..) else { return Ok(None) }
LookupHandler ==
    /\ pc = "Evaluated"
    /\ IF GetFunction(script, HandlerName(stage))
       THEN pc' = "HandlerFound" /\ UNCHANGED outcome
       ELSE pc' = "PassThrough" /\ outcome' = OkNone
    /\ UNCHANGED <<Elsewhere, spin, Inputs, jsContext, jsView, resultJs, resultStr, resultValue, calls, merges>>

\* serde_json::to_string of context and view, ctx.json_parse of both
MarshalArguments ==
    /\ pc = "HandlerFound"
    /\ \E failure \in {"none", "Serialization", "ArgumentParse"} :
         IF failure = "none"
         THEN /\ pc' = "Executing"
              /\ jsContext' = ContextToJs(context)
              /\ jsView' = ViewToJs(stage, baseline)
              /\ UNCHANGED outcome
         ELSE /\ pc' = "Failed"
              /\ outcome' = Fail(failure)
              /\ UNCHANGED <<jsContext, jsView>>
    /\ UNCHANGED <<Elsewhere, spin, Inputs, resultJs, resultStr, resultValue, calls, merges>>

\* on_request.call((context_js, request_js))
CallHandler ==
    /\ pc = "Executing"
    /\ script.handler.returns # "never"
    /\ calls' = calls + 1
    /\ jsContext' = ApplyContextEdit(jsContext, script.handler.edit)
    /\ jsView' = ApplyEdit(jsView, script.handler.edit)
    /\ CASE script.handler.returns = "throw" ->
              pc' = "Failed" /\ outcome' = Fail("HandlerInvocation") /\ UNCHANGED resultJs
         [] script.handler.returns = "view" ->
              pc' = "Returned" /\ resultJs' = JsValue("object", jsView') /\ UNCHANGED outcome
         [] script.handler.returns = "context" ->
              pc' = "Returned" /\ resultJs' = ContextAsResult(jsContext') /\ UNCHANGED outcome
         [] OTHER ->
              pc' = "Returned" /\ resultJs' = script.handler.value /\ UNCHANGED outcome
    /\ UNCHANGED <<Elsewhere, spin, Inputs, resultStr, resultValue, merges>>

\* ctx.json_stringify(result_js); None and the text null are pass-through
StringifyResult ==
    /\ pc = "Returned"
    /\ LET result_json == json_stringify(resultJs)
       IN  CASE result_json.r = "exception" ->
                  pc' = "Failed" /\ outcome' = Fail("ResultStringify") /\ UNCHANGED resultStr
             [] result_json.r = "none" ->
                  pc' = "PassThrough" /\ outcome' = OkNone /\ UNCHANGED resultStr
             [] OTHER ->
                  IF IsNullText(result_json.j)
                  THEN pc' = "PassThrough" /\ outcome' = OkNone /\ UNCHANGED resultStr
                  ELSE pc' = "Stringified" /\ resultStr' = result_json.j /\ UNCHANGED outcome
    /\ UNCHANGED <<Elsewhere, spin, Inputs, jsContext, jsView, resultJs, resultValue, calls, merges>>

\* serde_json::from_str(&result_str)
DecodeResult ==
    /\ pc = "Stringified"
    /\ IF from_str(resultStr).ok
       THEN pc' = "Validating" /\ resultValue' = from_str(resultStr).v /\ UNCHANGED outcome
       ELSE pc' = "Failed" /\ outcome' = Fail("Deserialization") /\ UNCHANGED resultValue
    /\ UNCHANGED <<Elsewhere, spin, Inputs, jsContext, jsView, resultJs, resultStr, calls, merges>>

\* merge_hook_request(&result_value, request)? ; Ok(Some(merged))
MergeResult ==
    /\ pc = "Validating"
    /\ merges' = merges + 1
    /\ \E r \in Merge(stage, resultValue, baseline) :
         IF r.ok
         THEN pc' = "Merged" /\ outcome' = OkSome(r.view)
         ELSE pc' = "Failed" /\ outcome' = Err(r.err)
    /\ UNCHANGED <<Elsewhere, spin, Inputs, jsContext, jsView, resultJs, resultStr, resultValue, calls>>

Next ==
    \/ CreateRuntime
    \/ EvalScript
    \/ LookupHandler
    \/ MarshalArguments
    \/ CallHandler
    \/ StringifyResult
    \/ DecodeResult
    \/ MergeResult

Spec == Init /\ [][Next]_vars

(***************************************************************************)
(* Vocabulary of the properties.                                           *)
(***************************************************************************)
Terminal == {"PassThrough", "Merged", "Failed"}

StageProperty == IF stage = "request" THEN script.onRequest ELSE script.onResponse

OtherStageProperty == IF stage = "request" THEN script.onResponse ELSE script.onRequest

HasNoHandler == script.eval = "object" /\ StageProperty # "function"

HandlerReturned == calls = 1 /\ script.handler.returns # "throw"

IsLowerCase(name) == to_ascii_lowercase(name) = name

\* validity of a decoded returned object, as section 4.4 of the specification states it
MapFieldInvalid(f) ==
    /\ f.k # "absent"
    /\ \/ f.k # "object"
       \/ \E k \in DOMAIN f.m : f.m[k].t # "string"

CodeIsInteger(f) == f.k \in {"posint", "negint"}

CodeFieldInvalid(f) ==
    /\ f.k # "absent"
    /\ ~(CodeIsInteger(f) /\ f.n >= 0 /\ f.n <= 65535)

ObjectInvalid(st, o) ==
    IF st = "request"
    THEN MapFieldInvalid(o.headers) \/ MapFieldInvalid(o.queries)
    ELSE CodeFieldInvalid(o.code) \/ MapFieldInvalid(o.headers)

MapFieldPaths(f, path) ==
    IF f.k = "absent" THEN {}
    ELSE IF f.k # "object" THEN {path}
    ELSE { Append(path, k) : k \in {x \in DOMAIN f.m : f.m[x].t # "string"} }

OffendingPaths(st, o) ==
    IF st = "request"
    THEN MapFieldPaths(o.headers, <<"request", "headers">>)
         \cup MapFieldPaths(o.queries, <<"request", "queries">>)
    ELSE (IF CodeFieldInvalid(o.code) THEN {<<"response", "code">>} ELSE {})
         \cup MapFieldPaths(o.headers, <<"response", "headers">>)

(***************************************************************************)
(* C1.  A script that evaluates to an object without a handler for the     *)
(* stage: the run returns Ok(None), the handler is never called and no     *)
(* merge is performed, whatever the context and the baseline are.          *)
(***************************************************************************)
C1_NoHandlerIsPassThrough ==
    HasNoHandler =>
        /\ calls = 0
        /\ merges = 0
        /\ outcome.tag \in {"Pending", "OkNone"} \/ outcome = Err(Error("Runtime", <<>>))
        /\ (pc \in Terminal /\ outcome.tag # "Err") =>
              (pc = "PassThrough" /\ outcome = OkNone)
        /\ pc \notin {"HandlerFound", "Executing", "Returned", "Stringified",
                      "Validating", "Merged"}

C1_Witness ==
    /\ HasNoHandler
    /\ OtherStageProperty = "function"
    /\ pc = "PassThrough"
    /\ outcome = OkNone
    /\ baseline.headers # EmptyMap

(***************************************************************************)
(* C2.  A handler that returns undefined (also after editing its view      *)
(* argument in place) or null: the run returns Ok(None) and the caller's   *)
(* baseline is still what was built from the transport; none of the        *)
(* in-place edits reached it.                                              *)
(***************************************************************************)
C2_VoidOrNullIsPassThrough ==
    (HandlerReturned /\ resultJs.t \in {"undefined", "null"} /\ pc # "Returned") =>
        /\ pc = "PassThrough"
        /\ outcome = OkNone
        /\ baseline \in Baselines(stage, transport)

C2_Witness ==
    /\ HandlerReturned
    /\ resultJs.t = "undefined"
    /\ pc = "PassThrough"
    /\ script.handler.edit.op = "deleteHeader"
    /\ jsView.headers.m # StringMapToJs(baseline.headers).m

(***************************************************************************)
(* C3.  A handler that returns a string, a number, an array or a boolean:  *)
(* the run returns a shape error, never Ok(None) and never a merged view.  *)
(* NaN is a number.                                                        *)
(***************************************************************************)
C3_NonObjectIsShapeError ==
    (HandlerReturned /\ pc \in Terminal
       /\ resultJs.t \in {"string", "number", "nan", "array", "boolean"}) =>
        /\ outcome.tag = "Err"
        /\ outcome.err.kind = "Shape"

C5_OmittedFieldKeepsBaseline ==
    pc = "Merged" =>
        LET o == resultValue.o
            v == outcome.view
        IN  /\ o.headers.k = "absent" => v.headers = baseline.headers
            /\ o.body.k = "absent" => v.body = baseline.body
            /\ (stage = "request" /\ o.queries.k = "absent") => v.queries = baseline.queries
            /\ (stage = "response" /\ o.code.k = "absent") => v.code = baseline.code

C5_Witness ==
    /\ pc = "Merged"
    /\ stage = "request"
    /\ resultValue.o.headers.k = "absent"
    /\ resultValue.o.body.k = "absent"
    /\ resultValue.o.queries.k = "object"
    /\ outcome.view.queries # baseline.queries
    /\ outcome.view.headers = baseline.headers
    /\ baseline.headers # EmptyMap

(***************************************************************************)
(* C6.  Replacement is wholesale per field.                                *)
(* As claimed: with a valid returned headers map the merged headers are    *)
(* exactly the returned entries with lower-cased keys.                     *)
(***************************************************************************)
ReplacedExactly(o, v) ==
    /\ o.body.k # "absent" => v.body = o.body.v
    /\ (stage = "request" /\ o.queries.k # "absent") =>
          v.queries = [k \in DOMAIN o.queries.m |-> o.queries.m[k].s]
    /\ (stage = "response" /\ o.code.k # "absent") => v.code = o.code.n

C6_Original_ExactlyReturnedEntries ==
    (pc = "Merged" /\ resultValue.o.headers.k # "absent") =>
        LET m == resultValue.o.headers.m
            h == outcome.view.headers
        IN  /\ DOMAIN h = { to_ascii_lowercase(k) : k \in DOMAIN m }
            /\ \A k \in DOMAIN m : h[to_ascii_lowercase(k)] = m[k].s
            /\ ReplacedExactly(resultValue.o, outcome.view)

(***************************************************************************)
(* C6, amended.  With a valid returned headers map the merged header names *)
(* are exactly the lower-cased returned names, each carrying the value of  *)
(* a returned entry of that lower-cased name (of several returned keys     *)
(* that differ only in case, one entry survives); every baseline header    *)
(* not returned is dropped and no name is filtered, denylisted or not;     *)
(* queries, body and code are replaced by exactly the returned value.      *)
(***************************************************************************)
C6_WholesaleReplacement ==
    (pc = "Merged" /\ resultValue.o.headers.k # "absent") =>
        LET m == resultValue.o.headers.m
            h == outcome.view.headers
        IN  /\ DOMAIN h = { to_ascii_lowercase(k) : k \in DOMAIN m }
            /\ \A x \in DOMAIN h :
                  \E k \in DOMAIN m : to_ascii_lowercase(k) = x /\ h[x] = m[k].s
            /\ ReplacedExactly(resultValue.o, outcome.view)

C6_Witness ==
    /\ pc = "Merged"
    /\ resultValue.o.headers.k = "object"
    /\ resultValue.o.body.k = "value"
    /\ outcome.view.body # baseline.body
    /\ \E k \in DOMAIN baseline.headers : k \notin DOMAIN outcome.view.headers
    /\ \E k \in DOMAIN outcome.view.headers : is_header_blacklisted(Spell(k))

(***************************************************************************)
(* C7.  Header map keys are lower-case in the baseline view that           *)
(* build_header_string_map produced and in every merged view, also when    *)
(* the result omits headers and the baseline headers are carried over.     *)
(***************************************************************************)
C7_HeaderKeysLowerCase ==
    /\ \A k \in DOMAIN build_header_string_map(transport) : IsLowerCase(k)
    /\ \A k \in DOMAIN baseline.headers : IsLowerCase(k)
    /\ outcome.tag = "OkSome" => \A k \in DOMAIN outcome.view.headers : IsLowerCase(k)

C7_Witness ==
    /\ pc = "Merged"
    /\ resultValue.o.headers.k = "object"
    /\ \E k \in DOMAIN resultValue.o.headers.m : ~IsLowerCase(k)
    /\ outcome.view.headers # EmptyMap

(***************************************************************************)
(* C8.  In the response merge a returned code is accepted exactly when it  *)
(* is an integer in 0..65535 and is then the merged code; an integer       *)
(* outside that range, 65536 or a negative one, is rejected with a range   *)
(* error, a non-integer or non-numeric value with a field type error; a    *)
(* rejected value is never truncated or wrapped.                           *)
(***************************************************************************)
C8_CodeRange ==
    (stage = "response" /\ pc \in Terminal /\ merges = 1
       /\ resultValue.t = "object" /\ resultValue.o.code.k # "absent") =>
        LET c == resultValue.o.code
        IN  IF CodeIsInteger(c)
            THEN IF c.n >= 0 /\ c.n <= 65535
                 THEN outcome.tag = "OkSome" => outcome.view.code = c.n
                 ELSE outcome = Err(Error("Range", <<"response", "code">>))
            ELSE outcome = Err(Error("FieldType", <<"response", "code">>))

(***************************************************************************)
(* C9.  The merge is all-or-nothing.  If the returned object has a headers *)
(* or queries value that is not an object, an entry of them that is not a  *)
(* string, or (response) an invalid code, the run returns an error whose   *)
(* path is one of the offending fields and no view, also when other fields *)
(* of the same object are valid.                                           *)
(***************************************************************************)
C9_AllOrNothing ==
    (pc \in Terminal /\ merges = 1 /\ resultValue.t = "object"
       /\ ObjectInvalid(stage, resultValue.o)) =>
        /\ pc = "Failed"
        /\ outcome.tag = "Err"
        /\ outcome.view = NoView
        /\ outcome.err.path \in OffendingPaths(stage, resultValue.o)

C9_Witness ==
    /\ pc = "Failed"
    /\ merges = 1
    /\ stage = "request"
    /\ resultValue.o.queries.k = "object"
    /\ ~MapFieldInvalid(resultValue.o.queries)
    /\ resultValue.o.body.k = "value"
    /\ \E k \in DOMAIN resultValue.o.headers.m : resultValue.o.headers.m[k].t = "string"
    /\ outcome.err = Error("FieldType", <<"request", "headers", "host">>)

(***************************************************************************)
(* C10.  A stage run follows the state machine of the specification        *)
(*   NoHandler -> PassThrough | HandlerFound -> Executing ->               *)
(*     { InvocationError -> Failed; ReturnedVoidOrNull -> PassThrough;     *)
(*       ReturnedObject -> Validating -> {Valid -> Merged;                 *)
(*       Invalid -> Failed}; ReturnedOther -> Failed }                     *)
(* and ends in exactly one of PassThrough (Ok(None)), Merged (Ok(Some))    *)
(* and Failed (Err); Merged only after a handler was found, executed,      *)
(* returned an object and passed validation; the handler is executed at    *)
(* most once, and not at all without a handler.                            *)
(***************************************************************************)
C10_StateMachine ==
    /\ calls <= 1
    /\ pc \in Terminal <=> outcome.tag # "Pending"
    /\ pc = "PassThrough" <=> outcome.tag = "OkNone"
    /\ pc = "Merged" <=> outcome.tag = "OkSome"
    /\ pc = "Failed" <=> outcome.tag = "Err"
    /\ (HasNoHandler \/ script.eval # "object") => calls = 0
    /\ pc = "Merged" =>
          /\ StageProperty = "function"
          /\ calls = 1
          /\ resultJs.t = "object"
          /\ merges = 1
          /\ ~ObjectInvalid(stage, resultValue.o)
    /\ pc = "PassThrough" =>
          \/ HasNoHandler /\ calls = 0
          \/ HandlerReturned /\ resultJs.t \in {"undefined", "null"}
    /\ (pc \in Terminal /\ HandlerReturned
          /\ resultJs.t \notin {"undefined", "null", "object"}) => pc = "Failed"

(***************************************************************************)
(* The helper functions on their own.  A behaviour of one of the           *)
(* specifications below is one call of one helper: Init draws the          *)
(* arguments, the action applies the function and records what it returns. *)
(***************************************************************************)
\* the backup commands take no part
Transfers == <<archive, upload, download>>

TransfersIdle == archive = Idle /\ upload = Idle /\ download = Idle

HookIdle ==
    /\ stage = Idle /\ transport = Idle /\ script = Idle /\ context = Idle
    /\ baseline = Idle /\ pc = Idle /\ jsContext = Idle /\ jsView = Idle
    /\ resultJs = Idle /\ resultStr = Idle /\ resultValue = Idle
    /\ outcome = Idle /\ calls = Idle /\ merges = Idle /\ spin = Idle

NotCall == <<HookVars, runs, lifecycle, restore, Transfers>>

NotCallIdle == HookIdle /\ runs = Idle /\ lifecycle = Idle /\ restore = Idle /\ TransfersIdle

(***************************************************************************)
(* is_header_blacklisted(name).  The names tried are every name of the     *)
(* list in lower case, in upper case and with a capital first letter, and  *)
(* names that are not on the list: a listed name with a character added,   *)
(* with its first or last character cut off, and the empty name.           *)
(***************************************************************************)
ascii_upper(c) ==
    IF \E i \in 1..Len(LowerCaseLetters) : LowerCaseLetters[i] = c
    THEN UpperCaseLetters[CHOOSE i \in 1..Len(LowerCaseLetters) : LowerCaseLetters[i] = c]
    ELSE c

UpperChars(w) == [i \in 1..Len(w) |-> ascii_upper(w[i])]

LowerChars(w) == [i \in 1..Len(w) |-> ascii_lower(w[i])]

Capitalised(w) == [i \in 1..Len(w) |-> IF i = 1 THEN ascii_upper(w[i]) ELSE w[i]]

DenylistProbes ==
    { <<>> } \cup
    UNION { { Spell(h), UpperChars(Spell(h)), Capitalised(Spell(h)),
              Append(Spell(h), "x"), Append(UpperChars(Spell(h)), "-"),
              Tail(Spell(h)), SubSeq(Spell(h), 1, Len(Spell(h)) - 1) } :
            h \in HEADER_BLACKLIST }

DenylistInit ==
    /\ NotCallIdle
    /\ call \in { [fn |-> "is_header_blacklisted", name |-> n, done |-> FALSE, ret |-> FALSE] :
                    n \in DenylistProbes }

CallIsHeaderBlacklisted ==
    /\ call.fn = "is_header_blacklisted"
    /\ ~call.done
    /\ call' = [call EXCEPT !.done = TRUE, !.ret = is_header_blacklisted(call.name)]
    /\ UNCHANGED NotCall

DenylistNext == CallIsHeaderBlacklisted

DenylistSpec == DenylistInit /\ [][DenylistNext]_vars

\* the denylist as section 6 of the specification gives it
DenylistOfSection6 ==
    { "authorization", "x-api-key", "x-goog-api-key", "host", "content-length",
      "transfer-encoding", "accept-encoding", "x-forwarded-host", "x-forwarded-port",
      "x-forwarded-proto", "forwarded", "cf-connecting-ip", "cf-ipcountry", "cf-ray",
      "cf-visitor", "true-client-ip", "fastly-client-ip", "x-azure-clientip",
      "x-azure-fdid", "x-azure-ref", "akamai-origin-hop", "x-akamai-config-log-detail",
      "x-request-id", "x-correlation-id", "x-trace-id", "x-amzn-trace-id", "x-b3-traceid",
      "x-b3-spanid", "x-b3-parentspanid", "x-b3-sampled", "traceparent", "tracestate",
      "anthropic-beta", "anthropic-version", "x-forwarded-for", "x-real-ip" }

(***************************************************************************)
(* C11.  is_header_blacklisted(name) is a total, case-insensitive          *)
(*   membership test that changes nothing: for every name it returns true  *)
(*   exactly when the ASCII-lower-cased name is one of the 36 names of the *)
(*   denylist of the specification (x-forwarded-for and x-real-ip          *)
(*   included), and false for every other name.                            *)
(***************************************************************************)
C11_DenylistMembership ==
    /\ Cardinality(DenylistOfSection6) = 36
    /\ {"x-forwarded-for", "x-real-ip"} \subseteq DenylistOfSection6
    /\ NotCallIdle
    /\ call.done =>
          call.ret = (LowerChars(call.name) \in { Spell(h) : h \in DenylistOfSection6 })

C11_Witness ==
    /\ call.done
    /\ call.ret
    /\ call.name = UpperChars(Spell("x-real-ip"))

(***************************************************************************)
(* build_header_string_map(headers).  headers is the HeaderMap in the      *)
(* order its iterator yields it: the names are lower case (HeaderName) and *)
(* the values of one name come one after the other.                        *)
(***************************************************************************)
HeaderNames == {"x-a", "host", "accept"}

HeaderValues == {"1", "2", "0xFF"}

HeaderInstances == HeaderNames \X HeaderValues

\* the instances of one name are adjacent, as HeaderMap::iter yields them
Grouped(headers) ==
    \A i, j, k \in 1..Len(headers) :
        (i < j /\ j < k /\ headers[i][1] = headers[k][1]) => headers[j][1] = headers[i][1]

HeaderMaps ==
    { h \in UNION { [1..n -> HeaderInstances] : n \in 0..MaxHeaders } : Grouped(h) }

FoldInit ==
    /\ NotCallIdle
    /\ call \in { [fn |-> "build_header_string_map", headers |-> h, done |-> FALSE,
                   ret |-> EmptyMap] : h \in HeaderMaps }

CallBuildHeaderStringMap ==
    /\ call.fn = "build_header_string_map"
    /\ ~call.done
    /\ call' = [call EXCEPT !.done = TRUE, !.ret = build_header_string_map(call.headers)]
    /\ UNCHANGED NotCall

FoldNext == CallBuildHeaderStringMap

FoldSpec == FoldInit /\ [][FoldNext]_vars

\* the values of the instances of a name, in the order of iteration
RECURSIVE ValuesOf(_, _)
ValuesOf(headers, name) ==
    IF headers = <<>> THEN <<>>
    ELSE IF to_ascii_lowercase(Head(headers)[1]) = name
         THEN <<stringify_header_value(Head(headers)[2])>> \o ValuesOf(Tail(headers), name)
         ELSE ValuesOf(Tail(headers), name)

RECURSIVE JoinedBy(_, _)
JoinedBy(values, sep) ==
    IF Len(values) = 1 THEN values[1]
    ELSE values[1] \o sep \o JoinedBy(Tail(values), sep)

(***************************************************************************)
(* C12.  Header folding: build_header_string_map returns a map with one    *)
(*   entry per distinct lower-cased name; the value of the entry is the    *)
(*   values of all the instances of that name, in the order they were      *)
(*   iterated, joined by single commas.  No value is dropped and no name   *)
(*   appears under two keys.                                               *)
(***************************************************************************)
C12_HeaderFolding ==
    (call.fn = "build_header_string_map" /\ call.done) =>
        /\ DOMAIN call.ret =
              { to_ascii_lowercase(call.headers[i][1]) : i \in 1..Len(call.headers) }
        /\ \A name \in DOMAIN call.ret :
              call.ret[name] = JoinedBy(ValuesOf(call.headers, name), ",")
        /\ \A a, b \in DOMAIN call.ret :
              to_ascii_lowercase(a) = to_ascii_lowercase(b) => a = b

C12_Witness ==
    /\ call.done
    /\ call.headers = <<<<"host", "1">>, <<"x-a", "2">>, <<"x-a", "1">>>>
    /\ call.ret = [k \in {"host", "x-a"} |-> IF k = "host" THEN "1" ELSE "2,1"]

(***************************************************************************)
(* Query strings.  A URL text is what Url::parse makes of it: whether it   *)
(* parses, what precedes the query, the characters of the query (and       *)
(* whether there is one) and the fragment.  Names and values of query      *)
(* parameters are sequences of characters; the url crate reads and writes  *)
(* them in application/x-www-form-urlencoded form.                         *)
(***************************************************************************)
Digits == <<"0", "1", "2", "3", "4", "5", "6", "7", "8", "9">>

HexUpper == <<"0", "1", "2", "3", "4", "5", "6", "7", "8", "9", "A", "B", "C", "D", "E", "F">>

HexLower == <<"0", "1", "2", "3", "4", "5", "6", "7", "8", "9", "a", "b", "c", "d", "e", "f">>

Range(f) == { f[i] : i \in DOMAIN f }

\* the ASCII codes of the characters the model decodes or encodes
Ascii == [c \in {" ", "#", "%", "&", "+", "/", "=", "?", "\\", "a", "b"} |->
            CASE c = " " -> 32 [] c = "#" -> 35 [] c = "%" -> 37 [] c = "&" -> 38
              [] c = "+" -> 43 [] c = "/" -> 47 [] c = "=" -> 61 [] c = "?" -> 63
              [] c = "\\" -> 92 [] c = "a" -> 97 [] c = "b" -> 98]

Chr(n) == CHOOSE c \in DOMAIN Ascii : Ascii[c] = n

IsHexDigit(c) == c \in Range(HexUpper) \cup Range(HexLower)

HexValue(c) ==
    IF c \in Range(HexUpper) THEN (CHOOSE i \in 1..16 : HexUpper[i] = c) - 1
    ELSE (CHOOSE i \in 1..16 : HexLower[i] = c) - 1

IsAlphanumeric(c) ==
    c \in Range(Digits) \cup Range(UpperCaseLetters) \cup Range(LowerCaseLetters)

RECURSIVE Concat(_)
Concat(seqs) == IF seqs = <<>> THEN <<>> ELSE Head(seqs) \o Concat(Tail(seqs))

FirstIndex(s, c) == CHOOSE i \in 1..Len(s) : s[i] = c /\ \A j \in 1..(i - 1) : s[j] # c

\* str::split(sep): the pieces between the separators, empty ones included
RECURSIVE split(_, _)
split(s, sep) ==
    IF sep \notin Range(s) THEN <<s>>
    ELSE LET i == FirstIndex(s, sep)
         IN  <<SubSeq(s, 1, i - 1)>> \o split(SubSeq(s, i + 1, Len(s)), sep)

\* the URL parser percent-encodes the characters of the query that are in
\* its query set; of the characters of the model that is the space
query_encode(q) == Concat([i \in 1..Len(q) |-> IF q[i] = " " THEN <<"%", "2", "0">> ELSE <<q[i]>>])

NoUrl == [base |-> "", has_query |-> FALSE, query |-> <<>>, fragment |-> ""]

\* url::Url::parse
Url_parse(text) ==
    IF text.valid
    THEN [ok |-> TRUE,
          url |-> [base |-> text.base, has_query |-> text.has_query,
                   query |-> query_encode(text.query), fragment |-> text.fragment]]
    ELSE [ok |-> FALSE, url |-> NoUrl]

\* Url::to_string
to_string(parsed) ==
    [valid |-> TRUE, base |-> parsed.base, has_query |-> parsed.has_query,
     query |-> parsed.query, fragment |-> parsed.fragment]

\* form_urlencoded: '+' is a space, then %XX is the byte XX; a '%' that is not
\* followed by two hex digits stands for itself
replace_plus(s) == [i \in 1..Len(s) |-> IF s[i] = "+" THEN " " ELSE s[i]]

RECURSIVE percent_decode(_)
percent_decode(s) ==
    IF s = <<>> THEN <<>>
    ELSE IF s[1] = "%" /\ Len(s) >= 3 /\ IsHexDigit(s[2]) /\ IsHexDigit(s[3])
         THEN <<Chr(16 * HexValue(s[2]) + HexValue(s[3]))>> \o percent_decode(SubSeq(s, 4, Len(s)))
         ELSE <<s[1]>> \o percent_decode(Tail(s))

decode(s) == percent_decode(replace_plus(s))

\* one name=value piece: split at the first '=', a piece without '=' has the value ""
parse_piece(piece) ==
    IF "=" \in Range(piece)
    THEN LET i == FirstIndex(piece, "=")
         IN  <<decode(SubSeq(piece, 1, i - 1)), decode(SubSeq(piece, i + 1, Len(piece)))>>
    ELSE <<decode(piece), <<>>>>

\* form_urlencoded::parse: the pieces between '&', the empty ones skipped
form_urlencoded_parse(input) ==
    LET pieces == SelectSeq(split(input, "&"), LAMBDA piece : piece # <<>>)
    IN  [i \in 1..Len(pieces) |-> parse_piece(pieces[i])]

\* Url::query_pairs: the pairs of the query, none when there is no query
query_pairs(parsed) == form_urlencoded_parse(parsed.query)

\* form_urlencoded::byte_serialize: letters, digits and * - . _ as they are,
\* a space as '+', every other byte as %XX (raw_char leaves every byte as it is)
raw_char(c) == <<c>>

byte_serialize_char(c) ==
    IF IsAlphanumeric(c) \/ c \in {"*", "-", ".", "_"} THEN <<c>>
    ELSE IF c = " " THEN <<"+">>
    ELSE <<"%", HexUpper[(Ascii[c] \div 16) + 1], HexUpper[(Ascii[c] % 16) + 1]>>

byte_serialize(s) == Concat([i \in 1..Len(s) |-> byte_serialize_char(s[i])])

\* Serializer::append_pair: '&' unless the pair is the first, then name=value
append_pair(target, name, value) ==
    target \o (IF target = <<>> THEN <<>> ELSE <<"&">>)
           \o byte_serialize(name) \o <<"=">> \o byte_serialize(value)

\* HashMap::insert of the pairs one after the other
RECURSIVE InsertPairs(_, _)
InsertPairs(pairs, output) ==
    IF pairs = <<>> THEN output
    ELSE InsertPairs(Tail(pairs), MapInsert(output, Head(pairs)[1], Head(pairs)[2]))

NoQueries == [k \in {} |-> <<>>]

build_query_string_map_from_url(url) ==
    LET parsed == Url_parse(url)
    IN  IF ~parsed.ok THEN NoQueries
        ELSE InsertPairs(query_pairs(parsed.url), NoQueries)

\* the orders in which a HashMap may iterate its entries
IterationOrders(m) ==
    { o \in [1..Cardinality(DOMAIN m) -> DOMAIN m] : \A i, j \in DOMAIN o : o[i] = o[j] => i = j }

RECURSIVE AppendPairs(_, _, _)
AppendPairs(target, order, queries) ==
    IF order = <<>> THEN target
    ELSE AppendPairs(append_pair(target, Head(order), queries[Head(order)]), Tail(order), queries)

NoText_url == [valid |-> FALSE, base |-> "", has_query |-> FALSE, query |-> <<>>, fragment |-> ""]

\* the results apply_query_string_map_to_url may return, one per iteration order;
\* query_pairs_mut() gives the URL a query when it has none, clear() empties it
apply_query_string_map_to_url(url, queries) ==
    LET parsed == Url_parse(url)
    IN  IF ~parsed.ok THEN { [ok |-> FALSE, text |-> NoText_url] }
        ELSE { [ok |-> TRUE,
                text |-> to_string([parsed.url EXCEPT
                                      !.has_query = TRUE,
                                      !.query = AppendPairs(<<>>, order, queries)])] :
               order \in IterationOrders(queries) }

(***************************************************************************)
(* The URLs and maps the two functions are tried on.  In mode "roundtrip"  *)
(* the map of the URL is built, written back to the URL and built again;   *)
(* in mode "apply" a given map is written to the URL and built from it.    *)
(***************************************************************************)
QueryPieces ==
    { <<"a", "=", "1">>,
      <<"a">>,
      <<"a", "+", "b", "=", "1">>,
      <<"a", " ", "b", "=", "3">>,
      <<"%", "2", "6", "=", "%", "3", "d">>,
      <<"%", "z", "z", "=", "1", "=", "2">>,
      <<"%", "6", "1", "=", "2">>,
      <<>> }

RECURSIVE JoinPieces(_)
JoinPieces(pieces) ==
    IF pieces = <<>> THEN <<>>
    ELSE IF Len(pieces) = 1 THEN pieces[1]
    ELSE pieces[1] \o <<"&">> \o JoinPieces(Tail(pieces))

QueryTexts ==
    { JoinPieces(ps) : ps \in UNION { [1..n -> QueryPieces] : n \in 0..MaxPieces } }

UrlTexts ==
    { [valid |-> TRUE, base |-> "https://api.example.com/v1", has_query |-> TRUE,
       query |-> q, fragment |-> ""] : q \in QueryTexts }
    \cup
    { [valid |-> TRUE, base |-> "https://api.example.com/v1", has_query |-> FALSE,
       query |-> <<>>, fragment |-> "top"],
      [valid |-> FALSE, base |-> "not a url", has_query |-> FALSE,
       query |-> <<>>, fragment |-> ""] }

QueryKeys == { <<"a">>, <<>>, <<"a", " ", "b">>, <<"&">>, <<"+", "%">> }

QueryValues == { <<"1">>, <<>>, <<"a", "&", "b", "=", "c">> }

QueryMaps ==
    UNION { [ks -> QueryValues] : ks \in { x \in SUBSET QueryKeys : Cardinality(x) <= MaxQueries } }

NoApplied == [ok |-> FALSE, text |-> NoText_url]

QueryInit ==
    /\ NotCallIdle
    /\ call \in
         { [mode |-> "roundtrip", url |-> u, queries |-> NoQueries, step |-> 0,
            applied |-> NoApplied, back |-> NoQueries] : u \in UrlTexts }
         \cup
         { [mode |-> "apply", url |-> u, queries |-> m, step |-> 1,
            applied |-> NoApplied, back |-> NoQueries] :
             u \in { x \in UrlTexts : x.query \in {<<>>, <<"a", "=", "1">>} }, m \in QueryMaps }

CallBuildQueryMap ==
    /\ call.mode \in {"roundtrip", "apply"}
    /\ call.step = 0
    /\ call' = [call EXCEPT !.step = 1, !.queries = build_query_string_map_from_url(call.url)]
    /\ UNCHANGED NotCall

CallApplyQueryMap ==
    /\ call.mode \in {"roundtrip", "apply"}
    /\ call.step = 1
    /\ \E r \in apply_query_string_map_to_url(call.url, call.queries) :
          call' = [call EXCEPT !.step = 2, !.applied = r]
    /\ UNCHANGED NotCall

CallBuildQueryMapAgain ==
    /\ call.mode \in {"roundtrip", "apply"}
    /\ call.step = 2
    /\ call.applied.ok
    /\ call' = [call EXCEPT !.step = 3,
                            !.back = build_query_string_map_from_url(call.applied.text)]
    /\ UNCHANGED NotCall

QueryNext ==
    \/ CallBuildQueryMap
    \/ CallApplyQueryMap
    \/ CallBuildQueryMapAgain

QuerySpec == QueryInit /\ [][QueryNext]_vars

\* the name=value pairs of a URL text, decoded
PairsOf(text) == query_pairs(Url_parse(text).url)

NoDuplicateNames(text) ==
    \A i, j \in 1..Len(PairsOf(text)) : PairsOf(text)[i][1] = PairsOf(text)[j][1] => i = j

(***************************************************************************)
(* C13.  Query round trip.  For a parseable URL without duplicate          *)
(*   parameter names, writing back the map parsed from it gives a URL with *)
(*   the same set of name/value pairs.  For every map m, the map parsed    *)
(*   from the URL m was written to is m.  For a URL with duplicate names   *)
(*   the parsed map holds, for each name, the value of its last occurrence.*)
(***************************************************************************)
C13_QueryRoundTrip ==
    /\ (call.mode = "roundtrip" /\ call.step >= 2 /\ call.url.valid
          /\ NoDuplicateNames(call.url)) =>
          /\ call.applied.ok
          /\ Range(PairsOf(call.applied.text)) = Range(PairsOf(call.url))
    /\ (call.step = 2 /\ call.url.valid) => call.applied.ok
    /\ call.step = 3 => call.back = call.queries
    /\ (call.mode = "roundtrip" /\ call.step >= 1 /\ call.url.valid) =>
          LET pairs == PairsOf(call.url)
          IN  /\ DOMAIN call.queries = { pairs[i][1] : i \in 1..Len(pairs) }
              /\ \A i \in 1..Len(pairs) :
                    (\A j \in (i + 1)..Len(pairs) : pairs[j][1] # pairs[i][1]) =>
                        call.queries[pairs[i][1]] = pairs[i][2]

\* a map with a name and a value that need encoding came back as it was written
C13_Witness ==
    /\ call.mode = "apply"
    /\ call.step = 3
    /\ DOMAIN call.queries = {<<"&">>, <<"a", " ", "b">>}
    /\ call.queries[<<"&">>] = <<"a", "&", "b", "=", "c">>
    /\ call.back = call.queries

(***************************************************************************)
(* Several invocations of the run functions, interleaved.  Every           *)
(* invocation owns the interpreter it creates (Runtime::new and            *)
(* Context::full are locals of the run function) and drops it when it      *)
(* returns.  What a script can keep in an interpreter is its global        *)
(* object: here one global, n, that scripts set, increment and read.       *)
(* Context::full also gives the script the intrinsics of the engine, Date  *)
(* among them: a handler can read the clock of the host.                   *)
(*   top      what evaluating the script does before the handler is read:  *)
(*            "none", "setGlobal" (globalThis.n = 1), "setAndThrow"        *)
(*   handler  "read"  returns n (or that it is unset) in the body          *)
(*            "incr"  increments n and returns it in the body              *)
(*            "incrAndThrow" increments n and throws                       *)
(*            "stamp" returns Date.now() in the body                       *)
(***************************************************************************)
Invocations == 1..MaxInvocations

FreshGlobals == [set |-> FALSE, n |-> 0]

\* Runtime::new() and Context::full(&runtime): a new interpreter, whatever
\* interpreters were dropped before (ReusedGlobals is a pooled runtime)
ReusedGlobals(dropped) == dropped

NewGlobals(dropped) == FreshGlobals

GlobalScripts ==
    { [top |-> "none", handler |-> "read"],
      [top |-> "setGlobal", handler |-> "read"],
      [top |-> "none", handler |-> "incr"],
      [top |-> "setAndThrow", handler |-> "read"],
      [top |-> "none", handler |-> "incrAndThrow"],
      [top |-> "none", handler |-> "stamp"] }

GlobalBaselines == {"x"}

ClockReadings == {1000, 2000}

NoInvocation ==
    [script |-> [top |-> "none", handler |-> "read"], baseline |-> "", pc |-> "Idle",
     globals |-> FreshGlobals, now |-> 0, outcome |-> Pending]

\* ctx.eval(script_code) on the interpreter's globals
EvalGlobals(sc, g) ==
    IF sc.top \in {"setGlobal", "setAndThrow"} THEN [set |-> TRUE, n |-> 1] ELSE g

EvalThrows(sc) == sc.top = "setAndThrow"

\* on_request.call(...) on the interpreter's globals
CallGlobals(sc, g) ==
    IF sc.handler \in {"incr", "incrAndThrow"} THEN [set |-> TRUE, n |-> g.n + 1] ELSE g

\* the outcome of the run function, from the interpreter's globals after the
\* call and the clock reading the handler took
CallOutcome(sc, view, g, now) ==
    CASE sc.handler = "incrAndThrow" -> Fail("HandlerInvocation")
      [] sc.handler = "stamp" -> OkSome([body |-> <<view, "at", now>>])
      [] OTHER -> OkSome([body |-> <<view, IF g.set THEN "set" ELSE "unset", g.n>>])

IsolationInit ==
    /\ HookIdle
    /\ call = Idle /\ lifecycle = Idle /\ restore = Idle /\ TransfersIdle
    /\ runs = [inv |-> [i \in Invocations |-> NoInvocation],
               dropped |-> FreshGlobals, started |-> 0]

NotRuns == <<HookVars, call, lifecycle, restore, Transfers>>

\* a caller calls execute_on_request_script
Invoke(i) ==
    /\ runs.inv[i].pc \in {"Idle", "Returned"}
    /\ runs.started < MaxStarted
    /\ \E sc \in GlobalScripts, b \in GlobalBaselines :
          runs' = [runs EXCEPT !.started = @ + 1,
                               !.inv[i] = [NoInvocation EXCEPT !.script = sc, !.baseline = b,
                                                               !.pc = "Start"]]
    /\ UNCHANGED NotRuns

RunCreateRuntime(i) ==
    /\ runs.inv[i].pc = "Start"
    /\ runs' = [runs EXCEPT !.inv[i].pc = "Created",
                            !.inv[i].globals = NewGlobals(runs.dropped)]
    /\ UNCHANGED NotRuns

RunEvalScript(i) ==
    /\ runs.inv[i].pc = "Created"
    /\ LET r == runs.inv[i]
       IN  runs' = [runs EXCEPT
                      !.inv[i].globals = EvalGlobals(r.script, r.globals),
                      !.inv[i].pc = IF EvalThrows(r.script) THEN "Done" ELSE "Evaluated",
                      !.inv[i].outcome = IF EvalThrows(r.script)
                                         THEN Fail("ScriptCompile") ELSE Pending]
    /\ UNCHANGED NotRuns

RunCallHandler(i) ==
    /\ runs.inv[i].pc = "Evaluated"
    /\ \E now \in ClockReadings :
          LET r == runs.inv[i]
              g == CallGlobals(r.script, r.globals)
          IN  runs' = [runs EXCEPT
                         !.inv[i].globals = g,
                         !.inv[i].now = IF r.script.handler = "stamp" THEN now ELSE 0,
                         !.inv[i].pc = "Done",
                         !.inv[i].outcome = CallOutcome(r.script, r.baseline, g,
                                                IF r.script.handler = "stamp" THEN now ELSE 0)]
    /\ UNCHANGED NotRuns

\* the run function returns: runtime and js_context go out of scope
RunReturn(i) ==
    /\ runs.inv[i].pc = "Done"
    /\ runs' = [runs EXCEPT !.inv[i].pc = "Returned", !.dropped = runs.inv[i].globals]
    /\ UNCHANGED NotRuns

IsolationNext ==
    \E i \in Invocations :
        \/ Invoke(i)
        \/ RunCreateRuntime(i)
        \/ RunEvalScript(i)
        \/ RunCallHandler(i)
        \/ RunReturn(i)

IsolationSpec == IsolationInit /\ [][IsolationNext]_vars

Finished(i) == runs.inv[i].pc \in {"Done", "Returned"}

\* the outcome of the invocation when nothing else ever runs, given the clock
\* reading its handler takes
RunAlone(sc, view, now) ==
    IF EvalThrows(sc) THEN Fail("ScriptCompile")
    ELSE CallOutcome(sc, view, CallGlobals(sc, EvalGlobals(sc, FreshGlobals)), now)

Exchanges == 1..MaxExchanges

NoExchange ==
    [phase |-> "Idle", request_stage |-> "notStarted", response_stage |-> "notStarted",
     dispatched |-> FALSE, upstream |-> "none"]

StageEnds == {"ok", "failed"}

StageOver == StageEnds \cup {"skipped"}

\* the forwarder sends the request upstream once the request stage has returned
MayDispatchEarly(x) == x.request_stage # "notStarted"

MayDispatch(x) == x.request_stage \in StageOver

LifecycleInit ==
    /\ HookIdle
    /\ call = Idle /\ runs = Idle /\ restore = Idle /\ TransfersIdle
    /\ lifecycle = [e \in Exchanges |-> NoExchange]

NotLifecycle == <<HookVars, call, runs, restore, Transfers>>

ReceiveRequest(e) ==
    /\ lifecycle[e].phase = "Idle"
    /\ lifecycle' = [lifecycle EXCEPT ![e].phase = "Received"]
    /\ UNCHANGED NotLifecycle

\* the forwarder calls execute_on_request_script
BeginRequestStage(e) ==
    /\ lifecycle[e].phase = "Received"
    /\ lifecycle[e].request_stage = "notStarted"
    /\ lifecycle' = [lifecycle EXCEPT ![e].request_stage = "running"]
    /\ UNCHANGED NotLifecycle

SkipRequestStage(e) ==
    /\ lifecycle[e].phase = "Received"
    /\ lifecycle[e].request_stage = "notStarted"
    /\ lifecycle' = [lifecycle EXCEPT ![e].request_stage = "skipped"]
    /\ UNCHANGED NotLifecycle

\* execute_on_request_script returns
EndRequestStage(e) ==
    /\ lifecycle[e].request_stage = "running"
    /\ \E r \in StageEnds : lifecycle' = [lifecycle EXCEPT ![e].request_stage = r]
    /\ UNCHANGED NotLifecycle

DispatchUpstream(e) ==
    /\ lifecycle[e].phase = "Received"
    /\ MayDispatch(lifecycle[e])
    /\ lifecycle' = [lifecycle EXCEPT ![e].phase = "Dispatched", ![e].dispatched = TRUE]
    /\ UNCHANGED NotLifecycle

RejectRequest(e) ==
    /\ lifecycle[e].phase = "Received"
    /\ lifecycle[e].request_stage = "failed"
    /\ lifecycle' = [lifecycle EXCEPT ![e].phase = "Replied"]
    /\ UNCHANGED NotLifecycle

ReceiveUpstreamResponse(e) ==
    /\ lifecycle[e].phase = "Dispatched"
    /\ \E u \in {"response", "error"} :
          lifecycle' = [lifecycle EXCEPT ![e].upstream = u,
                                         ![e].phase = IF u = "response" THEN "Responded"
                                                      ELSE "Replied"]
    /\ UNCHANGED NotLifecycle

\* the forwarder calls execute_on_response_script
BeginResponseStage(e) ==
    /\ lifecycle[e].phase = "Responded"
    /\ lifecycle[e].response_stage = "notStarted"
    /\ lifecycle' = [lifecycle EXCEPT ![e].response_stage = "running"]
    /\ UNCHANGED NotLifecycle

SkipResponseStage(e) ==
    /\ lifecycle[e].phase = "Responded"
    /\ lifecycle[e].response_stage = "notStarted"
    /\ lifecycle' = [lifecycle EXCEPT ![e].response_stage = "skipped"]
    /\ UNCHANGED NotLifecycle

\* execute_on_response_script returns
EndResponseStage(e) ==
    /\ lifecycle[e].response_stage = "running"
    /\ \E r \in StageEnds : lifecycle' = [lifecycle EXCEPT ![e].response_stage = r]
    /\ UNCHANGED NotLifecycle

ReturnToClient(e) ==
    /\ lifecycle[e].phase = "Responded"
    /\ lifecycle[e].response_stage \in StageOver
    /\ lifecycle' = [lifecycle EXCEPT ![e].phase = "Replied"]
    /\ UNCHANGED NotLifecycle

LifecycleNext ==
    \E e \in Exchanges :
        \/ ReceiveRequest(e)
        \/ BeginRequestStage(e)
        \/ SkipRequestStage(e)
        \/ EndRequestStage(e)
        \/ DispatchUpstream(e)
        \/ RejectRequest(e)
        \/ ReceiveUpstreamResponse(e)
        \/ BeginResponseStage(e)
        \/ SkipResponseStage(e)
        \/ EndResponseStage(e)
        \/ ReturnToClient(e)

LifecycleSpec == LifecycleInit /\ [][LifecycleNext]_vars

(***************************************************************************)
(* C15.  Within the lifecycle of one request the request stage has ended   *)
(*   (ok or failed) before the request is dispatched upstream and does not *)
(*   run again afterwards, the response stage starts only after the        *)
(*   upstream response was received, and the two stages of one request are *)
(*   never running at the same time.                                       *)
(***************************************************************************)
C15_StagesOrdered ==
    \A e \in Exchanges :
        LET x == lifecycle[e]
        IN  /\ x.dispatched => x.request_stage \in StageOver
            /\ x.response_stage # "notStarted" =>
                  (x.dispatched /\ x.upstream = "response" /\ x.request_stage \in StageOver)
            /\ ~(x.request_stage = "running" /\ x.response_stage = "running")

\* one request is in its response stage while another is still in its request stage
C15_Witness ==
    \E e, f \in Exchanges :
        /\ lifecycle[e].response_stage = "running"
        /\ lifecycle[e].request_stage = "failed"
        /\ lifecycle[f].request_stage = "running"

(***************************************************************************)
(* A handler that never returns.  on_request.call(...) is an ordinary      *)
(* call into the interpreter: the run function sets no interrupt handler,  *)
(* no memory limit and no timer, so while the handler loops the run        *)
(* function stays inside the call.  HandlerSpins is one more iteration of  *)
(* the handler's loop.  The thread that runs the call keeps being          *)
(* scheduled: weak fairness of the steps of the run.                       *)
(***************************************************************************)
LoopingHandler == Handler(NoEdit, "never", JsUndefined)

LoopingScript == Script("object", "function", "function", LoopingHandler)

LiveInit ==
    /\ stage \in {"request", "response"}
    /\ transport \in Transports
    /\ script \in { x \in Scripts(stage) : x.handler.edit = NoEdit } \cup { LoopingScript }
    /\ context = CallerContext
    /\ baseline \in Baselines(stage, transport)
    /\ pc = "Start"
    /\ jsContext = NoJsContext
    /\ jsView = NoJsView
    /\ resultJs = JsUndefined
    /\ resultStr = NoText
    /\ resultValue = NoText
    /\ outcome = Pending
    /\ calls = 0
    /\ merges = 0
    /\ spin = 0
    /\ ElsewhereIdle

HandlerSpins ==
    /\ pc = "Executing"
    /\ script.handler.returns = "never"
    /\ spin' = 1 - spin
    /\ UNCHANGED <<Elsewhere, Inputs, pc, jsContext, jsView, resultJs, resultStr, resultValue,
                   outcome, calls, merges>>

LiveNext ==
    \/ CreateRuntime
    \/ EvalScript
    \/ LookupHandler
    \/ MarshalArguments
    \/ CallHandler
    \/ HandlerSpins
    \/ StringifyResult
    \/ DecodeResult
    \/ MergeResult

LiveSpec == LiveInit /\ [][LiveNext]_vars /\ WF_vars(LiveNext)

(***************************************************************************)
(* C16.  Every script invocation eventually ends: execute_on_request_script*)
(*   and execute_on_response_script return whatever the handler does, a    *)
(*   handler that loops forever included, because the invocation is cut    *)
(*   off by an externally enforced timeout.                                *)
(***************************************************************************)
C16_EveryInvocationEnds == <>(pc \in Terminal)

(***************************************************************************)
(* C17.  The context is never mutated by a script.  Whatever the handler   *)
(*   assigns to or deletes from its context argument, the caller's context *)
(*   is what it was, the view the handler received is untouched by edits   *)
(*   of the context, and the merged view is made of the returned value and *)
(*   the baseline only: a handler that edits its context and returns the   *)
(*   view, or returns the context itself, leaves the baseline as it was.   *)
(***************************************************************************)
EditsContext == script.handler.edit.op \in ContextOps

C17_ContextNeverMutated ==
    /\ context = CallerContext
    /\ (calls = 1 /\ EditsContext) => jsView = ViewToJs(stage, baseline)
    /\ pc = "Merged" =>
          \E r \in Merge(stage, resultValue, baseline) : r.ok /\ r.view = outcome.view
    /\ (pc = "Merged" /\ (EditsContext \/ script.handler.returns = "context")) =>
          outcome.view = baseline

C17_Witness ==
    /\ pc = "Merged"
    /\ script.handler.edit.op = "deleteIncomingHeader"
    /\ script.handler.returns = "view"
    /\ "x-a" \in DOMAIN context.incoming_headers
    /\ "x-a" \notin DOMAIN jsContext.incomingHeaders.m
    /\ "x-a" \in DOMAIN outcome.view.headers

(***************************************************************************)
(* WebDAV paths (commands/import_export.rs).  Texts are sequences of       *)
(* characters; an Option<&str> is a record with the flag some.             *)
(***************************************************************************)
None == [some |-> FALSE, text |-> <<>>]

Some(text) == [some |-> TRUE, text |-> text]

\* str::replace(from, to) for single characters
replace(s, from, to) == [i \in 1..Len(s) |-> IF s[i] = from THEN to ELSE s[i]]

IsWhitespace(c) == c = " "

\* str::trim: without the leading and the trailing whitespace (untrimmed keeps it)
RECURSIVE trim_start(_)
trim_start(s) ==
    IF s # <<>> /\ IsWhitespace(Head(s)) THEN trim_start(Tail(s)) ELSE s

RECURSIVE trim_end(_)
trim_end(s) ==
    IF s # <<>> /\ IsWhitespace(s[Len(s)]) THEN trim_end(SubSeq(s, 1, Len(s) - 1)) ELSE s

untrimmed(s) == s

trim(s) == trim_end(trim_start(s))

SegmentsOk(segments) == [ok |-> TRUE, segments |-> segments]

SegmentsErr == [ok |-> FALSE, segments |-> <<>>]

\* the loop of parse_webdav_segments over the pieces of normalized.split('/')
RECURSIVE CollectSegments(_, _)
CollectSegments(parts, segments) ==
    IF parts = <<>> THEN SegmentsOk(segments)
    ELSE LET part == trim(Head(parts))
         IN  IF part = <<>> \/ part = <<".">> THEN CollectSegments(Tail(parts), segments)
             ELSE IF part = <<".", ".">> THEN SegmentsErr
             ELSE CollectSegments(Tail(parts), Append(segments, part))

parse_webdav_segments(raw) ==
    IF ~raw.some THEN SegmentsOk(<<>>)
    ELSE LET normalized == replace(raw.text, "\\", "/")
         IN  CollectSegments(split(normalized, "/"), <<>>)

RawCharacters == {"/", "\\", " ", ".", "a", "b"}

RawTexts == UNION { [1..n -> RawCharacters] : n \in 0..MaxRaw }

SegmentsInit ==
    /\ NotCallIdle
    /\ call \in { [fn |-> "parse_webdav_segments", raw |-> r, done |-> FALSE,
                   ret |-> SegmentsErr] : r \in {None} \cup { Some(t) : t \in RawTexts } }

CallParseWebdavSegments ==
    /\ call.fn = "parse_webdav_segments"
    /\ ~call.done
    /\ call' = [call EXCEPT !.done = TRUE, !.ret = parse_webdav_segments(call.raw)]
    /\ UNCHANGED NotCall

SegmentsNext == CallParseWebdavSegments

SegmentsSpec == SegmentsInit /\ [][SegmentsNext]_vars

\* the pieces of a text between its separators, by position: a piece starts
\* at the beginning or after a separator and ends before the next separator
Separators == {"/", "\\"}

SeparatorPositions(text) == { i \in 1..Len(text) : text[i] \in Separators }

PieceFrom(text, start) ==
    LET ends == { i \in SeparatorPositions(text) : i >= start } \cup { Len(text) + 1 }
        end  == CHOOSE i \in ends : \A j \in ends : i <= j
    IN  SubSeq(text, start, end - 1)

\* the piece without the whitespace around it, said without recursion
Stripped(piece) ==
    LET inside == { i \in 1..Len(piece) : piece[i] # " " }
    IN  IF inside = {} THEN <<>>
        ELSE SubSeq(piece, CHOOSE i \in inside : \A j \in inside : i <= j,
                           CHOOSE i \in inside : \A j \in inside : i >= j)

RECURSIVE PiecesFrom(_, _)
PiecesFrom(text, start) ==
    IF start > Len(text) + 1 THEN <<>>
    ELSE LET piece == PieceFrom(text, start)
         IN  <<Stripped(piece)>> \o PiecesFrom(text, start + Len(piece) + 1)

KeptPieces(text) ==
    SelectSeq(PiecesFrom(text, 1), LAMBDA piece : piece # <<>> /\ piece # <<".">>)

(***************************************************************************)
(* C18.  parse_webdav_segments treats / and \ alike as separators, trims   *)
(*   every segment, drops the empty and the "." segments and keeps the     *)
(*   others in their order; it fails exactly when some segment is "..".    *)
(*   A successful result holds no empty segment, no ".", no ".." and no    *)
(*   separator character.  Without a text the result is no segment.        *)
(***************************************************************************)
C18_SegmentsNormalised ==
    (call.fn = "parse_webdav_segments" /\ call.done) =>
        /\ ~call.raw.some => call.ret = SegmentsOk(<<>>)
        /\ call.raw.some =>
              /\ call.ret.ok <=> <<".", ".">> \notin Range(PiecesFrom(call.raw.text, 1))
              /\ call.ret.ok => call.ret.segments = KeptPieces(call.raw.text)
        /\ call.ret.ok =>
              \A i \in 1..Len(call.ret.segments) :
                  LET segment == call.ret.segments[i]
                  IN  /\ segment \notin {<<>>, <<".">>, <<".", ".">>}
                      /\ Range(segment) \cap Separators = {}
                      /\ segment[1] # " " /\ segment[Len(segment)] # " "

C18_Witness ==
    /\ call.done
    /\ call.raw = Some(<<" ", "a", "\\", "b">>)
    /\ call.ret = SegmentsOk(<<<<"a">>, <<"b">>>>)

(***************************************************************************)
(* prepare_webdav_request.  The URL text of the request is what Url::parse *)
(* makes of it: whether it is blank, whether it parses, its scheme, host   *)
(* and path, and whether it has a query or a fragment.  The path of a Url  *)
(* is the text the url crate keeps: it starts with '/', the segments are   *)
(* percent-encoded and separated by '/'.                                   *)
(***************************************************************************)
DEFAULT_WEBDAV_FILE_NAME == <<"c", "c", "-", "s", "w", "i", "t", "c", "h", "-", "b", "a", "c", "k", "u", "p", ".", "z", "i", "p">>

normalize_optional(value) ==
    IF ~value.some THEN None
    ELSE IF trim(value.text) = <<>> THEN None
    ELSE Some(trim(value.text))

NoBase == [scheme |-> "", host |-> "", path |-> <<>>]

BaseOk(url) == [ok |-> TRUE, url |-> url]

BaseErr == [ok |-> FALSE, url |-> NoBase]

normalize_base_url(raw) ==
    IF ~raw.parses THEN BaseErr
    ELSE IF raw.scheme \notin {"http", "https"} THEN BaseErr
    ELSE IF raw.has_query \/ raw.has_fragment THEN BaseErr
    ELSE BaseOk([scheme |-> raw.scheme, host |-> raw.host,
                 path |-> IF raw.path[Len(raw.path)] # "/"
                          THEN Append(raw.path, "/") ELSE raw.path])

FileNameOk(name) == [ok |-> TRUE, name |-> name]

FileNameErr == [ok |-> FALSE, name |-> <<>>]

normalize_file_name(raw) ==
    LET file_name == IF normalize_optional(raw).some THEN normalize_optional(raw).text
                     ELSE DEFAULT_WEBDAV_FILE_NAME
    IN  IF file_name = <<".">> \/ file_name = <<".", ".">>
           \/ "/" \in Range(file_name) \/ "\\" \in Range(file_name)
        THEN FileNameErr
        ELSE FileNameOk(file_name)

\* PathSegmentsMut::pop_if_empty: drop the final '/' of a path that is longer
\* than "/" (keep_empty leaves it)
keep_empty(path) == path

pop_if_empty(path) ==
    IF Len(path) > 1 /\ path[Len(path)] = "/" THEN SubSeq(path, 1, Len(path) - 1) ELSE path

\* the characters PathSegmentsMut percent-encodes in a segment of a special URL
EncodedInSegment == {" ", "#", "%", "/", "?", "\\"}

encode_segment_char(c) ==
    IF c \in EncodedInSegment
    THEN <<"%", HexUpper[(Ascii[c] \div 16) + 1], HexUpper[(Ascii[c] % 16) + 1]>>
    ELSE <<c>>

encode_segment(segment) == Concat([i \in 1..Len(segment) |-> encode_segment_char(segment[i])])

\* PathSegmentsMut::push: "." and ".." are ignored; a '/' is written unless the
\* path is "/" alone, then the encoded segment
push(path, segment) ==
    IF segment = <<".">> \/ segment = <<".", ".">> THEN path
    ELSE (IF Len(path) > 1 THEN Append(path, "/") ELSE path) \o encode_segment(segment)

RECURSIVE PushAll(_, _)
PushAll(path, segments) ==
    IF segments = <<>> THEN path ELSE PushAll(push(path, Head(segments)), Tail(segments))

build_webdav_target_url(base_url, directory_segments, file_name) ==
    [base_url EXCEPT !.path = push(PushAll(pop_if_empty(base_url.path), directory_segments),
                                   file_name)]

build_webdav_directory_urls(base_url, directory_segments) ==
    [idx \in 1..Len(directory_segments) |->
        [base_url EXCEPT !.path = push(PushAll(pop_if_empty(base_url.path),
                                               SubSeq(directory_segments, 1, idx)), <<>>)]]

NoPrepared ==
    [target_url |-> NoBase, directory_urls |-> <<>>, file_name |-> <<>>,
     username |-> None, password |-> None]

PreparedErr == [ok |-> FALSE, prepared |-> NoPrepared]

prepare_webdav_request(request) ==
    IF request.url.blank THEN PreparedErr
    ELSE LET base == normalize_base_url(request.url)
             remote_dir == normalize_optional(request.remote_dir)
             directory_segments == parse_webdav_segments(remote_dir)
             file_name == normalize_file_name(request.file_name)
         IN  IF ~base.ok THEN PreparedErr
             ELSE IF ~directory_segments.ok THEN PreparedErr
             ELSE IF ~file_name.ok THEN PreparedErr
             ELSE [ok |-> TRUE,
                   prepared |->
                     [target_url |-> build_webdav_target_url(base.url,
                                        directory_segments.segments, file_name.name),
                      directory_urls |-> build_webdav_directory_urls(base.url,
                                            directory_segments.segments),
                      file_name |-> file_name.name,
                      username |-> normalize_optional(request.username),
                      password |-> IF request.password.some
                                      /\ trim(request.password.text) # <<>>
                                   THEN request.password ELSE None]]

BasePaths == { <<"/">>, <<"/", "w", "e", "b", "d", "a", "v">>, <<"/", "w", "e", "b", "d", "a", "v", "/">>, <<"/", "a", "/", "/">>, <<"/", "r", "e", "m", "o", "t", "e", ".", "p", "h", "p", "/", "d", "a", "v">> }

WebDavUrls ==
    { [blank |-> FALSE, parses |-> TRUE, scheme |-> "https", host |-> "dav.example.com",
       path |-> p, has_query |-> FALSE, has_fragment |-> FALSE] : p \in BasePaths }
    \cup
    { [blank |-> TRUE, parses |-> FALSE, scheme |-> "", host |-> "", path |-> <<>>,
       has_query |-> FALSE, has_fragment |-> FALSE],
      [blank |-> FALSE, parses |-> FALSE, scheme |-> "", host |-> "", path |-> <<>>,
       has_query |-> FALSE, has_fragment |-> FALSE],
      [blank |-> FALSE, parses |-> TRUE, scheme |-> "http", host |-> "dav.example.com",
       path |-> <<"/">>, has_query |-> FALSE, has_fragment |-> FALSE],
      [blank |-> FALSE, parses |-> TRUE, scheme |-> "ftp", host |-> "dav.example.com",
       path |-> <<"/">>, has_query |-> FALSE, has_fragment |-> FALSE],
      [blank |-> FALSE, parses |-> TRUE, scheme |-> "https", host |-> "dav.example.com",
       path |-> <<"/">>, has_query |-> TRUE, has_fragment |-> FALSE],
      [blank |-> FALSE, parses |-> TRUE, scheme |-> "https", host |-> "dav.example.com",
       path |-> <<"/">>, has_query |-> FALSE, has_fragment |-> TRUE] }

RemoteDirs ==
    { None,
      Some(<<>>),
      Some(<<" ", " ">>),
      Some(<<"a">>),
      Some(<<"/", "a", "/", "b", "/">>),
      Some(<<"a", "\\", "b">>),
      Some(<<" ", "a", " ", "/", " ", "b", " ">>),
      Some(<<"a", "/", ".", ".", "/", "b">>),
      Some(<<".", "/", "a", "/", ".">>),
      Some(<<"a", " ", "b", "/", "%", "2", "e", "%", "2", "e">>),
      Some(<<"?", "#">>),
      Some(<<".", ".">>),
      Some(<<"a", "/", "/", "b">>) }

FileNames ==
    { None,
      Some(<<>>),
      Some(<<" ">>),
      Some(<<".">>),
      Some(<<".", ".">>),
      Some(<<"a", "/", "b">>),
      Some(<<"a", "\\", "b">>),
      Some(<<"f", ".", "z", "i", "p">>),
      Some(<<" ", "f", ".", "z", "i", "p", " ">>),
      Some(<<"a", " ", "b", "%">>),
      Some(<<"?", "#">>) }

Credentials == { None, Some(<<" ">>), Some(<<"a", " ">>) }

WebDavRequests ==
    { [url |-> u, remote_dir |-> d, file_name |-> f, username |-> c, password |-> c] :
        u \in WebDavUrls, d \in RemoteDirs, f \in FileNames, c \in Credentials }

PrepareInit ==
    /\ NotCallIdle
    /\ call \in { [fn |-> "prepare_webdav_request", request |-> r, done |-> FALSE,
                   ret |-> PreparedErr] : r \in WebDavRequests }

CallPrepareWebdavRequest ==
    /\ call.fn = "prepare_webdav_request"
    /\ ~call.done
    /\ call' = [call EXCEPT !.done = TRUE, !.ret = prepare_webdav_request(call.request)]
    /\ UNCHANGED NotCall

PrepareNext == CallPrepareWebdavRequest

PrepareSpec == PrepareInit /\ [][PrepareNext]_vars

\* what the claim speaks of, read off the request and the result
ExpectedSegments(request) ==
    IF request.remote_dir.some THEN KeptPieces(request.remote_dir.text) ELSE <<>>

ExpectedFileName(request) ==
    IF request.file_name.some /\ Stripped(request.file_name.text) # <<>>
    THEN Stripped(request.file_name.text)
    ELSE DEFAULT_WEBDAV_FILE_NAME

\* the segments of the base path: the path ends with '/', with one added when
\* the URL had none
BaseSegments(request) ==
    LET path == request.url.path
        parts == split(path, "/")
    IN  IF path[Len(path)] = "/" THEN SubSeq(parts, 1, Len(parts) - 1) ELSE parts

\* the segments of a path of the result, decoded
DecodedSegments(path) ==
    LET parts == split(path, "/") IN [i \in 1..Len(parts) |-> percent_decode(parts[i])]

IsPrefix(p, q) == Len(p) <= Len(q) /\ SubSeq(q, 1, Len(p)) = p

(***************************************************************************)
(* C19.  For every accepted WebDAV request the path of the target URL is   *)
(*   the path of the base URL, the directory segments in order and the     *)
(*   file name, with exactly one '/' between the parts; the file name is   *)
(*   cc-switch-backup.zip when none or a blank one is given.  There is one *)
(*   directory URL per directory segment, from the shallowest to the       *)
(*   deepest; each is the prefix of the target path that ends with the     *)
(*   '/' after that segment, so the target lies under the last one.        *)
(***************************************************************************)
C19_TargetUnderDirectories ==
    (call.fn = "prepare_webdav_request" /\ call.done /\ call.ret.ok) =>
        LET request == call.request
            result  == call.ret.prepared
            dirs    == ExpectedSegments(request)
        IN  /\ result.file_name = ExpectedFileName(request)
            /\ result.target_url.scheme = request.url.scheme
            /\ result.target_url.host = request.url.host
            /\ DecodedSegments(result.target_url.path) =
                  BaseSegments(request) \o dirs \o <<result.file_name>>
            /\ Len(result.directory_urls) = Len(dirs)
            /\ \A i \in 1..Len(dirs) :
                  /\ DecodedSegments(result.directory_urls[i].path) =
                        BaseSegments(request) \o SubSeq(dirs, 1, i) \o << <<>> >>
                  /\ IsPrefix(result.directory_urls[i].path, result.target_url.path)
                  /\ result.directory_urls[i].host = request.url.host
                  /\ result.directory_urls[i].scheme = request.url.scheme

C19_Witness ==
    /\ call.fn = "prepare_webdav_request"
    /\ call.done
    /\ call.ret.ok
    /\ call.request.url.path = <<"/", "w", "e", "b", "d", "a", "v", "/">>
    /\ ExpectedSegments(call.request) = <<<<"a">>, <<"b">>>>
    /\ ~call.request.file_name.some
    /\ Len(call.ret.prepared.directory_urls) = 2
    /\ call.ret.prepared.target_url.path =
          <<"/", "w", "e", "b", "d", "a", "v", "/", "a", "/", "b", "/">>
             \o DEFAULT_WEBDAV_FILE_NAME

(***************************************************************************)
(* restore_backup_from_bytes (backup_bundle.rs).  bytes is the backup as a *)
(* sequence of byte values.  Whether the archive restore and the SQL       *)
(* import succeed depends on the rest of the bytes and on the database:    *)
(* both outcomes are possible for every input.                             *)
(*   pc       Start, Archive (inside restore_full_backup_archive),         *)
(*            Sql (inside import_sql_from_bytes), Imported, Returned       *)
(*   result   what the function returned                                   *)
(*   archive_restores, sql_imports, finalized                              *)
(*            calls of restore_full_backup_archive, of                     *)
(*            import_sql_from_bytes on the input and of finalize_restore   *)
(*            made by restore_backup_from_bytes                            *)
(***************************************************************************)
\* a test that looks at the first two bytes only
starts_with_pk(bytes) == Len(bytes) >= 2 /\ bytes[1] = ByteP /\ bytes[2] = ByteK

looks_like_zip(bytes) ==
    /\ Len(bytes) >= 4
    /\ bytes[1] = ByteP
    /\ bytes[2] = ByteK
    /\ bytes[3] \in {3, 5, 7}
    /\ bytes[4] \in {4, 6, 8}

ByteValues == {ByteP, ByteK, 0, 3, 4, 5, 6, 7, 8}

Backups == UNION { [1..n -> ByteValues] : n \in 0..MaxBytes }

RestorePending == [tag |-> "Pending", full_restore |-> FALSE]

RestoreOk(full) == [tag |-> "Ok", full_restore |-> full]

RestoreErr == [tag |-> "Err", full_restore |-> FALSE]

RestoreInit ==
    /\ HookIdle
    /\ call = Idle /\ runs = Idle /\ lifecycle = Idle /\ TransfersIdle
    /\ restore \in { [bytes |-> b, pc |-> "Start", result |-> RestorePending,
                      archive_restores |-> 0, sql_imports |-> 0, finalized |-> 0] :
                       b \in Backups }

NotRestore == <<HookVars, call, runs, lifecycle, Transfers>>

\* if looks_like_zip(bytes) { return restore_full_backup_archive(db, bytes); }
DispatchRestore ==
    /\ restore.pc = "Start"
    /\ restore' = IF looks_like_zip(restore.bytes)
                  THEN [restore EXCEPT !.pc = "Archive", !.archive_restores = @ + 1]
                  ELSE [restore EXCEPT !.pc = "Sql", !.sql_imports = @ + 1]
    /\ UNCHANGED NotRestore

\* restore_full_backup_archive returns; its result is the result of the call
\* (the call itself, statement by statement, is ArchiveSpec)
ArchiveRestoreReturns ==
    /\ restore.pc = "Archive"
    /\ \E r \in {RestoreOk(TRUE), RestoreErr} :
          restore' = [restore EXCEPT !.pc = "Returned", !.result = r]
    /\ UNCHANGED NotRestore

\* let backup_id = import_sql_from_bytes(db, bytes)?;
SqlImportReturns ==
    /\ restore.pc = "Sql"
    /\ \E imported \in BOOLEAN :
          restore' = IF imported
                     THEN [restore EXCEPT !.pc = "Imported"]
                     ELSE [restore EXCEPT !.pc = "Returned", !.result = RestoreErr]
    /\ UNCHANGED NotRestore

\* finalize_restore(db); Ok(RestoreResult { backup_id, full_restore: false })
FinalizeSqlRestore ==
    /\ restore.pc = "Imported"
    /\ restore' = [restore EXCEPT !.pc = "Returned", !.finalized = @ + 1,
                                  !.result = RestoreOk(FALSE)]
    /\ UNCHANGED NotRestore

RestoreNext ==
    \/ DispatchRestore
    \/ ArchiveRestoreReturns
    \/ SqlImportReturns
    \/ FinalizeSqlRestore

RestoreSpec == RestoreInit /\ [][RestoreNext]_vars

\* the ZIP magic as the claim words it
HasZipMagic(bytes) ==
    /\ Len(bytes) >= 4
    /\ SubSeq(bytes, 1, 2) = <<80, 75>>
    /\ bytes[3] \in {3, 5, 7}
    /\ bytes[4] \in {4, 6, 8}

(***************************************************************************)
(* C20.  restore_backup_from_bytes dispatches on the ZIP magic only.  The  *)
(*   full-archive restore runs, and a successful result reports            *)
(*   full_restore = true, exactly when the input has at least 4 bytes that *)
(*   begin with P, K, a byte of {3,5,7} and a byte of {4,6,8}.  Every      *)
(*   other input, shorter ones included, is imported as plain SQL and a    *)
(*   successful result reports full_restore = false.  Input detected as    *)
(*   ZIP is never imported as SQL, also when the archive restore fails.    *)
(***************************************************************************)
C20_DispatchOnZipMagic ==
    LET zip == HasZipMagic(restore.bytes)
    IN  /\ restore.pc # "Start" =>
              /\ restore.archive_restores = (IF zip THEN 1 ELSE 0)
              /\ restore.sql_imports = (IF zip THEN 0 ELSE 1)
        /\ restore.result.tag = "Ok" => restore.result.full_restore = zip
        /\ restore.pc = "Returned" => restore.result.tag \in {"Ok", "Err"}
        /\ zip => restore.finalized = 0

\* an input with the magic whose archive restore failed was not imported as SQL
C20_Witness ==
    /\ restore.pc = "Returned"
    /\ restore.bytes = <<80, 75, 5, 6>>
    /\ restore.result = RestoreErr
    /\ restore.sql_imports = 0
    /\ restore.archive_restores = 1

(***************************************************************************)
(* restore_full_backup_archive (backup_bundle.rs).                         *)
(*                                                                         *)
(* A backup archive is the list of its entries in central-directory order. *)
(* An entry has a name (a text, one character per element), a flag telling *)
(* whether its data can be read back (a damaged entry cannot) and what the *)
(* data decodes to:                                                        *)
(*   manifest.json   NotJson, or the JSON object's members format, version *)
(*                   and createdAt, each with its JSON type; a number is   *)
(*                   the decimal text written in the document              *)
(*   settings.json   "settings" when it decodes to AppSettings, else       *)
(*                   "garbage"                                             *)
(*   other entries   "bytes"                                               *)
(***************************************************************************)
BACKUP_FORMAT ==
    <<"c", "c", "-", "s", "w", "i", "t", "c", "h", "-", "f", "u", "l", "l", "-", "b", "a", "c", "k", "u", "p">>

BACKUP_VERSION == 1

\* u32::MAX, in decimal
U32_MAX == <<"4", "2", "9", "4", "9", "6", "7", "2", "9", "5">>

\* a decimal text without sign is at most another of the same length
RECURSIVE AtMost(_, _)
AtMost(a, b) ==
    IF a = <<>> THEN TRUE
    ELSE IF HexValue(Head(a)) # HexValue(Head(b)) THEN HexValue(Head(a)) < HexValue(Head(b))
    ELSE AtMost(Tail(a), Tail(b))

\* the JSON number is an integer a u32 holds
FitsU32(text) ==
    /\ text # <<>>
    /\ \A i \in 1..Len(text) : text[i] \in Range(Digits)
    /\ Len(text) < Len(U32_MAX) \/ (Len(text) = Len(U32_MAX) /\ AtMost(text, U32_MAX))

\* the decimal text of a small number
Decimal(n) == IF n < 10 THEN <<Digits[n + 1]>> ELSE <<Digits[(n \div 10) + 1], Digits[(n % 10) + 1]>>

MANIFEST_ENTRY ==
    <<"c", "c", "-", "s", "w", "i", "t", "c", "h", "-", "b", "a", "c", "k", "u", "p", "/", "m", "a", "n", "i", "f", "e", "s", "t", ".", "j", "s", "o", "n">>

DB_SQL_ENTRY ==
    <<"c", "c", "-", "s", "w", "i", "t", "c", "h", "-", "b", "a", "c", "k", "u", "p", "/", "d", "b", "/", "e", "x", "p", "o", "r", "t", ".", "s", "q", "l">>

SETTINGS_ENTRY ==
    <<"c", "c", "-", "s", "w", "i", "t", "c", "h", "-", "b", "a", "c", "k", "u", "p", "/", "a", "p", "p", "/", "s", "e", "t", "t", "i", "n", "g", "s", ".", "j", "s", "o", "n">>

LEGACY_CONFIG_ENTRY ==
    <<"c", "c", "-", "s", "w", "i", "t", "c", "h", "-", "b", "a", "c", "k", "u", "p", "/", "a", "p", "p", "/", "c", "o", "n", "f", "i", "g", ".", "j", "s", "o", "n">>

SKILLS_PREFIX ==
    <<"c", "c", "-", "s", "w", "i", "t", "c", "h", "-", "b", "a", "c", "k", "u", "p", "/", "a", "p", "p", "/", "s", "k", "i", "l", "l", "s">>

CLAUDE_SETTINGS_ENTRY ==
    <<"c", "c", "-", "s", "w", "i", "t", "c", "h", "-", "b", "a", "c", "k", "u", "p", "/", "s", "y", "s", "t", "e", "m", "/", "c", "l", "a", "u", "d", "e", "/", "s", "e", "t", "t", "i", "n", "g", "s", ".", "j", "s", "o", "n">>

CLAUDE_MCP_ENTRY ==
    <<"c", "c", "-", "s", "w", "i", "t", "c", "h", "-", "b", "a", "c", "k", "u", "p", "/", "s", "y", "s", "t", "e", "m", "/", "c", "l", "a", "u", "d", "e", "/", "m", "c", "p", ".", "j", "s", "o", "n">>

CODEX_AUTH_ENTRY ==
    <<"c", "c", "-", "s", "w", "i", "t", "c", "h", "-", "b", "a", "c", "k", "u", "p", "/", "s", "y", "s", "t", "e", "m", "/", "c", "o", "d", "e", "x", "/", "a", "u", "t", "h", ".", "j", "s", "o", "n">>

CODEX_CONFIG_ENTRY ==
    <<"c", "c", "-", "s", "w", "i", "t", "c", "h", "-", "b", "a", "c", "k", "u", "p", "/", "s", "y", "s", "t", "e", "m", "/", "c", "o", "d", "e", "x", "/", "c", "o", "n", "f", "i", "g", ".", "t", "o", "m", "l">>

GEMINI_ENV_ENTRY ==
    <<"c", "c", "-", "s", "w", "i", "t", "c", "h", "-", "b", "a", "c", "k", "u", "p", "/", "s", "y", "s", "t", "e", "m", "/", "g", "e", "m", "i", "n", "i", "/", ".", "e", "n", "v">>

GEMINI_SETTINGS_ENTRY ==
    <<"c", "c", "-", "s", "w", "i", "t", "c", "h", "-", "b", "a", "c", "k", "u", "p", "/", "s", "y", "s", "t", "e", "m", "/", "g", "e", "m", "i", "n", "i", "/", "s", "e", "t", "t", "i", "n", "g", "s", ".", "j", "s", "o", "n">>

OPENCODE_CONFIG_ENTRY ==
    <<"c", "c", "-", "s", "w", "i", "t", "c", "h", "-", "b", "a", "c", "k", "u", "p", "/", "s", "y", "s", "t", "e", "m", "/", "o", "p", "e", "n", "c", "o", "d", "e", "/", "o", "p", "e", "n", "c", "o", "d", "e", ".", "j", "s", "o", "n">>

OPENCODE_ENV_ENTRY ==
    <<"c", "c", "-", "s", "w", "i", "t", "c", "h", "-", "b", "a", "c", "k", "u", "p", "/", "s", "y", "s", "t", "e", "m", "/", "o", "p", "e", "n", "c", "o", "d", "e", "/", ".", "e", "n", "v">>

PROMPT_CLAUDE ==
    <<"c", "c", "-", "s", "w", "i", "t", "c", "h", "-", "b", "a", "c", "k", "u", "p", "/", "s", "y", "s", "t", "e", "m", "/", "p", "r", "o", "m", "p", "t", "s", "/", "c", "l", "a", "u", "d", "e", ".", "m", "d">>

PROMPT_CODEX ==
    <<"c", "c", "-", "s", "w", "i", "t", "c", "h", "-", "b", "a", "c", "k", "u", "p", "/", "s", "y", "s", "t", "e", "m", "/", "p", "r", "o", "m", "p", "t", "s", "/", "c", "o", "d", "e", "x", ".", "m", "d">>

PROMPT_GEMINI ==
    <<"c", "c", "-", "s", "w", "i", "t", "c", "h", "-", "b", "a", "c", "k", "u", "p", "/", "s", "y", "s", "t", "e", "m", "/", "p", "r", "o", "m", "p", "t", "s", "/", "g", "e", "m", "i", "n", "i", ".", "m", "d">>

PROMPT_OPENCODE ==
    <<"c", "c", "-", "s", "w", "i", "t", "c", "h", "-", "b", "a", "c", "k", "u", "p", "/", "s", "y", "s", "t", "e", "m", "/", "p", "r", "o", "m", "p", "t", "s", "/", "o", "p", "e", "n", "c", "o", "d", "e", ".", "m", "d">>

prompt_entry_for_app(app) ==
    CASE app = "Claude" -> PROMPT_CLAUDE
      [] app = "Codex" -> PROMPT_CODEX
      [] app = "Gemini" -> PROMPT_GEMINI
      [] app = "OpenCode" -> PROMPT_OPENCODE

Absent == [absent |-> TRUE]

\* a member of the manifest's JSON object: its JSON type and its value
Member(kind, value) == [kind |-> kind, value |-> value]

NoMember == Member("absent", <<>>)

NotJson == [json |-> FALSE]

JsonManifest(format, version, createdAt) ==
    [json |-> TRUE, format |-> format, version |-> version, createdAt |-> createdAt]

Entry(name, readable, data) == [name |-> name, readable |-> readable, data |-> data]

\* the outcomes of read_zip_entry_bytes
EntryErr == [tag |-> "Err", data |-> Absent]

EntryNone == [tag |-> "None", data |-> Absent]

EntrySome(data) == [tag |-> "Some", data |-> data]

\* archive.by_name(entry_path): the position of the entry of that name, 0 for
\* ZipError::FileNotFound
by_name(entries, entry_path) ==
    LET hits == { i \in 1..Len(entries) : entries[i].name = entry_path }
    IN  IF hits = {} THEN 0 ELSE CHOOSE i \in hits : \A j \in hits : j <= i

\* Ok(Some(bytes)), Ok(None) for FileNotFound, Err when read_to_end fails
read_zip_entry_bytes(entries, entry_path) ==
    LET found == by_name(entries, entry_path)
    IN  IF found = 0 THEN EntryNone
        ELSE IF entries[found].readable THEN EntrySome(entries[found].data)
        ELSE EntryErr

\* serde_json::from_slice::<BackupManifest>: every member is required, format and
\* createdAt are strings, version is a u32 (kept as its decimal text)
NoManifest == [ok |-> FALSE, format |-> <<>>, version |-> <<>>]

from_slice_manifest(data) ==
    IF /\ data.json
       /\ data.format.kind = "string"
       /\ data.version.kind = "number"
       /\ FitsU32(data.version.value)
       /\ data.createdAt.kind = "string"
    THEN [ok |-> TRUE, format |-> data.format.value, version |-> data.version.value]
    ELSE NoManifest

\* serde_json::from_slice::<AppSettings>
from_slice_settings(data) == data = "settings"

(***************************************************************************)
(* Paths.  A name inside the archive is a text; a place in the file system *)
(* is the list of the directory names that lead to it from the root, each  *)
(* a text.  files is the set of the places that hold a regular file.       *)
(***************************************************************************)
\* Path::components() of a relative or absolute Unix path: the pieces between
\* slashes, empty pieces and "." dropped
Components(text) == SelectSeq(split(text, "/"), LAMBDA piece : piece # <<>> /\ piece # <<".">>)

IsAbsolute(text) == text # <<>> /\ text[1] = "/"

\* depth after walking the components from depth d, -1 once a ".." climbs above the start
RECURSIVE WalkDepth(_, _)
WalkDepth(components, d) ==
    IF components = <<>> THEN d
    ELSE IF Head(components) = <<".", ".">>
         THEN IF d = 0 THEN -1 ELSE WalkDepth(Tail(components), d - 1)
         ELSE WalkDepth(Tail(components), d + 1)

\* where the operating system finds base/components: ".." steps to the parent,
\* the root is its own parent
RECURSIVE Walk(_, _)
Walk(place, components) ==
    IF components = <<>> THEN place
    ELSE IF Head(components) = <<".", ".">>
         THEN Walk(IF place = <<>> THEN <<>> ELSE SubSeq(place, 1, Len(place) - 1),
                   Tail(components))
         ELSE Walk(Append(place, Head(components)), Tail(components))

\* the components put together again with slashes
RECURSIVE JoinPath(_)
JoinPath(components) ==
    IF components = <<>> THEN <<>>
    ELSE IF Len(components) = 1 THEN Head(components)
    ELSE Head(components) \o <<"/">> \o JoinPath(Tail(components))

\* ZipFile::enclosed_name(): None for a name holding NUL, an absolute name or a
\* name that climbs above the archive root.  Otherwise releases of the zip
\* crate differ: the name as it is stored, or the path rebuilt from its
\* components with every ".." already taken (simplified).
enclosed_name(name, simplified) ==
    IF "NUL" \in Range(name) \/ IsAbsolute(name) \/ WalkDepth(Components(name), 0) < 0
    THEN None
    ELSE IF simplified THEN Some(JoinPath(Walk(<<>>, Components(name))))
    ELSE Some(name)

\* ZipFile::is_dir(): the name ends with a slash or a backslash
is_dir(name) == name # <<>> /\ name[Len(name)] \in {"/", "\\"}

starts_with(text, prefix) == IsPrefix(prefix, text)

strip_prefix(text, prefix) == SubSeq(text, Len(prefix) + 1, Len(text))

\* Path::join: an absolute argument replaces the base
join(base, text) == Walk(IF IsAbsolute(text) THEN <<>> ELSE base, Components(text))

\* the files inside a directory, and the same files seen from another directory
Inside(files, dir) == { f \in files : IsPrefix(dir, f) /\ Len(f) > Len(dir) }

Moved(f, from, to) == to \o SubSeq(f, Len(from) + 1, Len(f))

\* tempfile::tempdir()
TEMP_ROOT == << <<"t", "m", "p">>, <<".", "t", "m", "p", "X">> >>

\* temp_root.path().join("skills")
TEMP_SKILLS == Append(TEMP_ROOT, <<"s", "k", "i", "l", "l", "s">>)

\* SkillService::get_ssot_dir()
SSOT_DIR == << <<"h", "o", "m", "e">>, <<"s", "k", "i", "l", "l", "s">> >>

\* the skill installed before the restore
OldSkill == Append(SSOT_DIR, <<"o", "l", "d">>)

(***************************************************************************)
(* One call of restore_full_backup_archive, statement by statement.        *)
(*   zip          the archive: whether ZipArchive::new accepts the bytes,  *)
(*                and its entries                                          *)
(*   apps         AppType::all()                                           *)
(*   simplified   which enclosed_name the zip crate of the build has       *)
(*   pc           the statement about to run, "Returned" after the return  *)
(*   result       what the function returned; failed names the statement   *)
(*                whose error was returned                                 *)
(*   manifest     the decoded manifest                                     *)
(*   db, settings "original" until import_sql / update_settings succeeds   *)
(*   written      the configuration and prompt files written, in order     *)
(*   files        the regular files of the file system                     *)
(*   created      the archive entries a file was created for, with the     *)
(*                place of the file                                        *)
(*   log          the steps that completed, in the order they completed    *)
(*   finalized    calls of finalize_restore                                *)
(* Calls into the database, the settings store and the file system can     *)
(* fail whatever the archive holds: each such statement has both outcomes. *)
(***************************************************************************)
MaxEntries == 2

\* the entries write_entry_to_path_if_present is called for, with the getter
\* of the target path, in call order
CONFIG_WRITES ==
    << [entry |-> LEGACY_CONFIG_ENTRY, target |-> "get_app_config_path"],
       [entry |-> CLAUDE_SETTINGS_ENTRY, target |-> "get_claude_settings_path"],
       [entry |-> CLAUDE_MCP_ENTRY, target |-> "get_claude_mcp_path"],
       [entry |-> CODEX_AUTH_ENTRY, target |-> "get_codex_auth_path"],
       [entry |-> CODEX_CONFIG_ENTRY, target |-> "get_codex_config_path"],
       [entry |-> GEMINI_ENV_ENTRY, target |-> "get_gemini_env_path"],
       [entry |-> GEMINI_SETTINGS_ENTRY, target |-> "get_gemini_settings_path"],
       [entry |-> OPENCODE_CONFIG_ENTRY, target |-> "get_opencode_config_path"],
       [entry |-> OPENCODE_ENV_ENTRY, target |-> "get_opencode_env_path"] >>

\* the variants of AppType in the order AppType::all() lists them: the order
\* is drawn in Init
AppOrders ==
    { <<"Claude", "Codex", "Gemini", "OpenCode">>, <<"OpenCode", "Gemini", "Codex", "Claude">> }

\* format!("{SKILLS_PREFIX}/")
SkillsPrefix == SKILLS_PREFIX \o <<"/">>

CreatedAt == Member("string", <<"2", "0", "2", "6", "-", "0", "1", "-", "0", "1">>)

ValidManifest ==
    JsonManifest(Member("string", BACKUP_FORMAT), Member("number", Decimal(BACKUP_VERSION)),
                 CreatedAt)

ManifestData ==
    {NotJson} \cup
    { JsonManifest(f, v, c) :
        f \in { Member("string", BACKUP_FORMAT), Member("string", SubSeq(BACKUP_FORMAT, 1, 9) \o SubSeq(BACKUP_FORMAT, 15, 21)),
                Member("number", <<"1">>), NoMember },
        v \in { Member("number", n) :
                   n \in { <<"0">>, <<"1">>, <<"2">>, <<"-", "1">>, <<"1", ".", "5">>,
                           <<"4", "2", "9", "4", "9", "6", "7", "2", "9", "7">> } }
              \cup { Member("string", <<"1">>), NoMember },
        c \in { CreatedAt, NoMember } }

\* the archive with or without an entry of that name; the entry readable or damaged
Parts(name, data) ==
    { <<>> } \cup { <<Entry(name, readable, d)>> : readable \in BOOLEAN, d \in data }

Present(name) == <<Entry(name, TRUE, "bytes")>>

ManifestParts == Parts(MANIFEST_ENTRY, ManifestData)

SqlParts == Parts(DB_SQL_ENTRY, {"bytes"})

SettingsParts == Parts(SETTINGS_ENTRY, {"settings", "garbage"})

AllConfigFiles ==
    Present(LEGACY_CONFIG_ENTRY) \o Present(CLAUDE_SETTINGS_ENTRY) \o Present(CLAUDE_MCP_ENTRY)
    \o Present(CODEX_AUTH_ENTRY) \o Present(CODEX_CONFIG_ENTRY) \o Present(GEMINI_ENV_ENTRY)
    \o Present(GEMINI_SETTINGS_ENTRY) \o Present(OPENCODE_CONFIG_ENTRY)
    \o Present(OPENCODE_ENV_ENTRY)

AllPromptFiles ==
    Present(PROMPT_CLAUDE) \o Present(PROMPT_CODEX) \o Present(PROMPT_GEMINI)
    \o Present(PROMPT_OPENCODE)

FileParts ==
    { <<>>,
      AllConfigFiles \o AllPromptFiles,
      Present(CODEX_AUTH_ENTRY) \o Present(PROMPT_GEMINI),
      Present(LEGACY_CONFIG_ENTRY) \o <<Entry(CLAUDE_MCP_ENTRY, FALSE, "bytes")>>
          \o Present(OPENCODE_ENV_ENTRY) }

\* entry names the skills loop meets: files and directories below the skills
\* directory, the directory itself, names with "..", a doubled slash or
\* backslashes, names outside the directory, an absolute and a climbing name
SkillNames ==
    { SkillsPrefix \o <<"a">>,
      SkillsPrefix \o <<"d", "/">>,
      SkillsPrefix \o <<"d", "/", "b">>,
      SkillsPrefix,
      SkillsPrefix \o <<".", ".", "/", "x">>,
      SkillsPrefix \o <<".", ".", "/", ".", ".", "/", "y">>,
      SkillsPrefix \o <<"/", "z">>,
      SkillsPrefix \o <<".", ".", "\\", ".", ".", "\\", "w">>,
      replace(SkillsPrefix, "/", "\\") \o <<"c">>,
      SKILLS_PREFIX \o <<"x", "/", "a">>,
      <<"/", "a">>,
      <<".", ".", "/", "a">> }

SkillEntries ==
    { Entry(n, TRUE, "bytes") : n \in SkillNames }
    \cup { Entry(SkillsPrefix \o <<"e">>, FALSE, "bytes") }

SkillParts == UNION { [1..n -> SkillEntries] : n \in 0..MaxEntries }

OneSkill == Present(SkillsPrefix \o <<"a">>)

Zip(opens, entries) == [opens |-> opens, entries |-> entries]

\* three families of archives: the checks before the import vary, then the
\* settings and files vary, then the entries the skills loop meets vary
Archives ==
    { Zip(FALSE, <<>>) }
    \cup { Zip(TRUE, m \o s \o Present(SETTINGS_ENTRY) \o Present(LEGACY_CONFIG_ENTRY) \o OneSkill) :
             m \in ManifestParts, s \in SqlParts }
    \cup { Zip(TRUE, Present(DB_SQL_ENTRY) \o st \o f \o OneSkill
                     \o <<Entry(MANIFEST_ENTRY, TRUE, ValidManifest)>>) :
             st \in SettingsParts, f \in FileParts }
    \cup { Zip(TRUE, Present(DB_SQL_ENTRY) \o sk
                     \o <<Entry(MANIFEST_ENTRY, TRUE, ValidManifest)>>) :
             sk \in SkillParts }

ArchiveStart(zip, apps, simplified) ==
    [zip |-> zip, apps |-> apps, simplified |-> simplified, pc |-> "Open", result |-> RestorePending, failed |-> "",
     manifest |-> NoManifest, db |-> "original", settings |-> "original",
     written |-> <<>>, k |-> 1, idx |-> 1, extracted_any |-> FALSE,
     files |-> {OldSkill}, created |-> {}, log |-> <<>>, finalized |-> 0]

ArchiveInit ==
    /\ HookIdle
    /\ call = Idle /\ runs = Idle /\ lifecycle = Idle /\ restore = Idle
    /\ upload = Idle /\ download = Idle
    /\ archive \in { ArchiveStart(z, a, s) : z \in Archives, a \in AppOrders, s \in BOOLEAN }

NotArchive == <<HookVars, call, runs, lifecycle, restore, upload, download>>

\* a return that first puts back the database, the settings and the written files
ReturnErrRolledBack(a, statement) ==
    [a EXCEPT !.pc = "Returned", !.result = RestoreErr, !.failed = statement,
              !.db = "original", !.settings = "original", !.written = <<>>]

\* `?` and `return Err(..)`: the function returns the error; nothing is undone
ReturnErr(a, statement) == [a EXCEPT !.pc = "Returned", !.result = RestoreErr, !.failed = statement]

\* TempDir is dropped when replace_skills_ssot_from_archive returns
DropTemp(a) == [a EXCEPT !.files = @ \ Inside(@, TEMP_ROOT)]

Completed(a, step) == [a EXCEPT !.log = Append(@, step)]

\* a format that lets every manifest through
AnyFormat(format) == TRUE

\* manifest.format != BACKUP_FORMAT is the error
FormatAccepted(format) == format = BACKUP_FORMAT

AnyVersion(version) == TRUE

\* manifest.version != BACKUP_VERSION is the error
VersionAccepted(version) == version = Decimal(BACKUP_VERSION)

\* let mut archive = ZipArchive::new(cursor).map_err(..)?;
OpenArchive ==
    /\ archive.pc = "Open"
    /\ archive' = IF archive.zip.opens
                  THEN [archive EXCEPT !.pc = "ReadManifest"]
                  ELSE ReturnErr(archive, "ZipArchive::new")
    /\ UNCHANGED NotArchive

\* read_zip_entry_bytes(MANIFEST_ENTRY)?.ok_or_else(..)?; serde_json::from_slice(..)?
ReadManifest ==
    /\ archive.pc = "ReadManifest"
    /\ LET read == read_zip_entry_bytes(archive.zip.entries, MANIFEST_ENTRY)
           manifest == from_slice_manifest(read.data)
       IN  archive' =
             CASE read.tag = "Err" -> ReturnErr(archive, "read manifest")
               [] read.tag = "None" -> ReturnErr(archive, "manifest missing")
               [] read.tag = "Some" /\ ~manifest.ok -> ReturnErr(archive, "manifest json")
               [] OTHER -> [archive EXCEPT !.pc = "CheckFormat", !.manifest = manifest]
    /\ UNCHANGED NotArchive

\* if manifest.format != BACKUP_FORMAT { return Err(..) }
CheckFormat ==
    /\ archive.pc = "CheckFormat"
    /\ archive' = IF FormatAccepted(archive.manifest.format)
                  THEN [archive EXCEPT !.pc = "CheckVersion"]
                  ELSE ReturnErr(archive, "format")
    /\ UNCHANGED NotArchive

\* if manifest.version != BACKUP_VERSION { return Err(..) }
CheckVersion ==
    /\ archive.pc = "CheckVersion"
    /\ archive' = IF VersionAccepted(archive.manifest.version)
                  THEN [archive EXCEPT !.pc = "ReadSql"]
                  ELSE ReturnErr(archive, "version")
    /\ UNCHANGED NotArchive

\* let sql_bytes = read_zip_entry_bytes(DB_SQL_ENTRY)?.ok_or_else(..)?;
ReadSql ==
    /\ archive.pc = "ReadSql"
    /\ LET read == read_zip_entry_bytes(archive.zip.entries, DB_SQL_ENTRY)
       IN  archive' =
             CASE read.tag = "Err" -> ReturnErr(archive, "read sql")
               [] read.tag = "None" -> ReturnErr(archive, "sql missing")
               [] OTHER -> [archive EXCEPT !.pc = "ImportSql"]
    /\ UNCHANGED NotArchive

\* let backup_id = import_sql_from_bytes(db, &sql_bytes)?;
ImportSql ==
    /\ archive.pc = "ImportSql"
    /\ \E imported \in BOOLEAN :
          archive' = IF imported
                     THEN Completed([archive EXCEPT !.pc = "UpdateSettings",
                                                    !.db = "imported"], "import_sql")
                     ELSE ReturnErr(archive, "import_sql")
    /\ UNCHANGED NotArchive

\* if let Some(settings_bytes) = read_zip_entry_bytes(SETTINGS_ENTRY)? { .. update_settings(settings)?; }
UpdateSettings ==
    /\ archive.pc = "UpdateSettings"
    /\ LET read == read_zip_entry_bytes(archive.zip.entries, SETTINGS_ENTRY)
       IN  \E updated \in BOOLEAN :
             archive' =
               CASE read.tag = "Err" -> ReturnErr(archive, "read settings")
                 [] read.tag = "None" -> [archive EXCEPT !.pc = "WriteConfig"]
                 [] read.tag = "Some" /\ ~from_slice_settings(read.data) ->
                        ReturnErr(archive, "settings json")
                 [] read.tag = "Some" /\ from_slice_settings(read.data) /\ ~updated ->
                        ReturnErr(archive, "update_settings")
                 [] OTHER -> Completed([archive EXCEPT !.pc = "WriteConfig",
                                                       !.settings = "updated"],
                                       "update_settings")
    /\ UNCHANGED NotArchive

\* write_entry_to_path_if_present(archive, entry_path, target_path): Ok(false) when
\* the entry is missing, else write_bytes_to_path(target_path, &bytes)?
write_entry_to_path_if_present(a, entry_path, target, step, wrote) ==
    LET read == read_zip_entry_bytes(a.zip.entries, entry_path)
    IN  CASE read.tag = "Err" -> ReturnErr(a, "read file")
          [] read.tag = "None" -> a
          [] read.tag = "Some" /\ ~wrote -> ReturnErr(a, "write file")
          [] OTHER -> Completed([a EXCEPT !.written = Append(@, target)], step)

\* after the k-th call of a group: the next call, or the next group
Advance(a, k, last, next) ==
    IF a.pc = "Returned" THEN a
    ELSE IF k < last THEN [a EXCEPT !.k = k + 1]
    ELSE [a EXCEPT !.k = 1, !.pc = next]

\* the nine write_entry_to_path_if_present(..)? statements, one per step
WriteConfigFile ==
    /\ archive.pc = "WriteConfig"
    /\ \E wrote \in BOOLEAN :
          LET w == CONFIG_WRITES[archive.k]
          IN  archive' = Advance(write_entry_to_path_if_present(
                                     archive, w.entry, w.target, "write_config", wrote),
                                 archive.k, Len(CONFIG_WRITES), "WritePrompt")
    /\ UNCHANGED NotArchive

\* for app in AppType::all() { let Ok(path) = prompt_file_path(&app) else { continue };
\*                             write_entry_to_path_if_present(.., prompt_entry_for_app(&app), &path)?; }
WritePromptFile ==
    /\ archive.pc = "WritePrompt"
    /\ \E located \in BOOLEAN, wrote \in BOOLEAN :
          LET app == archive.apps[archive.k]
          IN  archive' = Advance(IF located
                                 THEN write_entry_to_path_if_present(
                                          archive, prompt_entry_for_app(app), app,
                                          "write_prompt", wrote)
                                 ELSE archive,
                                 archive.k, Len(archive.apps), "CreateTemp")
    /\ UNCHANGED NotArchive

(***************************************************************************)
(* replace_skills_ssot_from_archive, called by restore_full_backup_archive *)
(* after the prompt files.  Its errors are errors of the restore.          *)
(***************************************************************************)
\* let temp_root = tempfile::tempdir()?; fs::create_dir_all(&temp_skills)?;
CreateTempSkills ==
    /\ archive.pc = "CreateTemp"
    /\ \E created \in BOOLEAN :
          archive' = IF created
                     THEN [archive EXCEPT !.pc = "Extract", !.idx = 1]
                     ELSE ReturnErr(archive, "tempdir")
    /\ UNCHANGED NotArchive

\* what one turn of the loop does with the entry at idx: "skip" (continue
\* without writing), "dir" (create_dir_all) or "file" (create and copy)
EntryKind(name, simplified) ==
    LET enclosed == enclosed_name(name, simplified)
        zip_name == replace(enclosed.text, "\\", "/")
        rel == strip_prefix(zip_name, SkillsPrefix)
    IN  IF ~enclosed.some THEN "skip"
        ELSE IF ~starts_with(zip_name, SkillsPrefix) THEN "skip"
        ELSE IF rel = <<>> THEN "skip"
        ELSE IF is_dir(name) THEN "dir"
        ELSE "file"

\* let out_path = temp_skills.join(rel);
out_path(name, simplified) ==
    join(TEMP_SKILLS,
         strip_prefix(replace(enclosed_name(name, simplified).text, "\\", "/"), SkillsPrefix))

\* one turn of `for idx in 0..archive.len()`.  by_index fails on a damaged
\* entry, or only the copy of its data does; create_dir_all, File::create and
\* io::copy can fail on any entry.
ExtractEntry ==
    /\ archive.pc = "Extract"
    /\ archive.idx <= Len(archive.zip.entries)
    /\ LET e == archive.zip.entries[archive.idx]
           kind == EntryKind(e.name, archive.simplified)
           place == out_path(e.name, archive.simplified)
           next == [archive EXCEPT !.idx = @ + 1]
           made == [next EXCEPT !.files = @ \cup {place},
                                !.created = @ \cup {[idx |-> archive.idx, place |-> place]}]
       IN  \E indexed \in BOOLEAN, done \in BOOLEAN :
             archive' =
               CASE ~e.readable /\ ~indexed -> DropTemp(ReturnErr(archive, "by_index"))
                 [] (e.readable \/ indexed) /\ kind = "skip" -> next
                 [] (e.readable \/ indexed) /\ kind = "dir" ->
                        IF done THEN next ELSE DropTemp(ReturnErr(archive, "create out dir"))
                 [] (e.readable \/ indexed) /\ kind = "file" /\ (~e.readable \/ ~done) ->
                        DropTemp(ReturnErr(IF done THEN made ELSE archive, "copy"))
                 [] OTHER -> [made EXCEPT !.extracted_any = TRUE]
    /\ UNCHANGED NotArchive

\* let target_dir = SkillService::get_ssot_dir()?;
\* if target_dir.exists() { fs::remove_dir_all(&target_dir)?; } fs::create_dir_all(&target_dir)?;
\* a remove_dir_all that fails may have removed some of the files
ReplaceSkillsDirectory ==
    /\ archive.pc = "Extract"
    /\ archive.idx > Len(archive.zip.entries)
    /\ LET old == Inside(archive.files, SSOT_DIR)
       IN  \E reached \in {"get_ssot_dir", "remove_dir_all", "create_dir_all", "done"},
              removed \in SUBSET old :
             archive' =
               CASE reached = "get_ssot_dir" -> DropTemp(ReturnErr(archive, reached))
                 [] reached = "remove_dir_all" ->
                        DropTemp(ReturnErr([archive EXCEPT !.files = @ \ removed], reached))
                 [] reached = "create_dir_all" ->
                        DropTemp(ReturnErr([archive EXCEPT !.files = @ \ old], reached))
                 [] OTHER -> [archive EXCEPT !.files = @ \ old, !.pc = "Copy"]
    /\ UNCHANGED NotArchive

\* copy_dir_recursive(from, to): every regular file below from, at the same
\* place below to
copy_dir_recursive(files, from, to) ==
    files \cup { Moved(f, from, to) : f \in Inside(files, from) }

\* a copy that stops with an error after having copied some of the files
copy_dir_partly(files, from, to, copied) ==
    files \cup { Moved(f, from, to) : f \in copied }

\* if extracted_any { copy_dir_recursive(&temp_skills, &target_dir)?; } Ok(())
CopySkills ==
    /\ archive.pc = "Copy"
    /\ LET extracted == Inside(archive.files, TEMP_SKILLS)
       IN  \E copied \in SUBSET extracted :
             archive' =
               IF ~archive.extracted_any
               THEN Completed(DropTemp([archive EXCEPT !.pc = "Finalize"]), "replace_skills")
               ELSE IF copied = extracted
               THEN Completed(DropTemp([archive EXCEPT
                       !.pc = "Finalize",
                       !.files = copy_dir_recursive(@, TEMP_SKILLS, SSOT_DIR)]),
                       "replace_skills")
               ELSE DropTemp(ReturnErr([archive EXCEPT
                       !.files = copy_dir_partly(@, TEMP_SKILLS, SSOT_DIR, copied)],
                       "copy_dir_recursive"))
    /\ UNCHANGED NotArchive

\* finalize_restore(db); Ok(RestoreResult { backup_id, full_restore: true })
FinalizeRestore ==
    /\ archive.pc = "Finalize"
    /\ archive' = Completed([archive EXCEPT !.pc = "Returned", !.finalized = @ + 1,
                                            !.result = RestoreOk(TRUE)],
                            "finalize_restore")
    /\ UNCHANGED NotArchive

ArchiveNext ==
    \/ OpenArchive
    \/ ReadManifest
    \/ CheckFormat
    \/ CheckVersion
    \/ ReadSql
    \/ ImportSql
    \/ UpdateSettings
    \/ WriteConfigFile
    \/ WritePromptFile
    \/ CreateTempSkills
    \/ ExtractEntry
    \/ ReplaceSkillsDirectory
    \/ CopySkills
    \/ FinalizeRestore

ArchiveSpec == ArchiveInit /\ [][ArchiveNext]_vars

\* the entries of the archive that carry a given name
Named(zip, name) == { i \in 1..Len(zip.entries) : zip.entries[i].name = name }

\* what the manifest entry holds, read off the archive
ManifestOf(zip) == zip.entries[CHOOSE i \in Named(zip, MANIFEST_ENTRY) : TRUE].data

\* one of the defects the validation looks for: the archive does not open, has
\* no manifest entry, the manifest is not JSON, names another format or another
\* version than 1, or there is no SQL entry
Defective(zip) ==
    \/ ~zip.opens
    \/ Named(zip, MANIFEST_ENTRY) = {}
    \/ ~ManifestOf(zip).json
    \/ ManifestOf(zip).format # Member("string", BACKUP_FORMAT)
    \/ ManifestOf(zip).version # Member("number", <<"1">>)
    \/ Named(zip, DB_SQL_ENTRY) = {}

\* nothing the restore writes to has changed
Untouched(a) ==
    /\ a.db = "original"
    /\ a.settings = "original"
    /\ a.written = <<>>
    /\ Inside(a.files, SSOT_DIR) = {OldSkill}
    /\ a.created = {}
    /\ a.finalized = 0

(***************************************************************************)
(* C21.  In restore_full_backup_archive validation precedes every          *)
(*   mutation.  When the archive cannot be opened, has no manifest entry,  *)
(*   its manifest is not valid JSON, names a format other than             *)
(*   cc-switch-full-backup or a version other than 1, or has no SQL entry, *)
(*   the call returns an error, and at no point of the call is the         *)
(*   database imported, the settings updated, a configuration file written *)
(*   or the skills directory touched.                                      *)
(***************************************************************************)
C21_ValidationBeforeMutation ==
    Defective(archive.zip) =>
        /\ Untouched(archive)
        /\ archive.pc = "Returned" => archive.result = RestoreErr

\* a manifest of version 2 in an archive that holds settings, a configuration
\* file and a skill: the call returned the version error and changed nothing
C21_Witness ==
    /\ archive.pc = "Returned"
    /\ archive.failed = "version"
    /\ ManifestOf(archive.zip).version = Member("number", <<"2">>)
    /\ Named(archive.zip, SETTINGS_ENTRY) # {}
    /\ Named(archive.zip, DB_SQL_ENTRY) # {}
    /\ Untouched(archive)

\* the place of a step in the order the restore is meant to keep
StepRank(step) ==
    CASE step = "import_sql" -> 1
      [] step = "update_settings" -> 2
      [] step = "write_config" -> 3
      [] step = "write_prompt" -> 4
      [] step = "replace_skills" -> 5
      [] step = "finalize_restore" -> 6

Times(log, step) == Cardinality({ i \in 1..Len(log) : log[i] = step })

\* the steps the archive asks for: the import and the skills replacement
\* always, the settings update when the archive holds settings
Asked(zip) ==
    {"import_sql", "replace_skills"}
    \cup (IF Named(zip, SETTINGS_ENTRY) # {} THEN {"update_settings"} ELSE {})

\* the targets of the configuration entries the archive holds, in the order of the calls
AskedConfigTargets(zip) ==
    LET held == SelectSeq(CONFIG_WRITES, LAMBDA w : Named(zip, w.entry) # {})
    IN  [i \in 1..Len(held) |-> held[i].target]

(***************************************************************************)
(* C22.  A full restore keeps the order database import, settings update,  *)
(*   configuration files, prompt files, skills replacement, finalize: the  *)
(*   steps that completed form a run in that order that starts with the    *)
(*   database import.  finalize_restore runs at most once, and only when   *)
(*   the import, the settings update (if the archive holds settings),      *)
(*   the write of every configuration file the archive holds and the       *)
(*   skills replacement all completed; it ran exactly when the call        *)
(*   returned Ok.  On an error return finalize_restore has not run and     *)
(*   every step that completed is still applied: the database stays        *)
(*   imported, the settings updated and the written files written.         *)
(***************************************************************************)
C22_StepOrderAndFinalize ==
    LET log == archive.log
    IN  /\ \A i \in 1..Len(log), j \in 1..Len(log) :
              i < j => StepRank(log[i]) <= StepRank(log[j])
        /\ log # <<>> => log[1] = "import_sql"
        /\ \A s \in {"import_sql", "update_settings", "replace_skills", "finalize_restore"} :
              Times(log, s) <= 1
        /\ archive.finalized = Times(log, "finalize_restore")
        /\ archive.finalized = 1 =>
              /\ \A s \in Asked(archive.zip) : Times(log, s) = 1
              /\ SubSeq(archive.written, 1, Len(AskedConfigTargets(archive.zip)))
                    = AskedConfigTargets(archive.zip)
              /\ archive.pc = "Returned" /\ archive.result = RestoreOk(TRUE)
        /\ archive.pc = "Returned" =>
              /\ archive.result \in {RestoreOk(TRUE), RestoreErr}
              /\ archive.result = RestoreOk(TRUE) <=> archive.finalized = 1
              /\ Times(log, "import_sql") = 1 <=> archive.db = "imported"
              /\ Times(log, "update_settings") = 1 <=> archive.settings = "updated"
              /\ Times(log, "write_config") + Times(log, "write_prompt") = Len(archive.written)

\* the write of a prompt file failed after the import, the settings update and
\* all nine configuration files: the error was returned, finalize_restore did
\* not run, and what was done stays done
C22_Witness ==
    /\ archive.pc = "Returned"
    /\ archive.result = RestoreErr
    /\ archive.failed = "write file"
    /\ archive.finalized = 0
    /\ archive.db = "imported"
    /\ archive.settings = "updated"
    /\ Len(archive.written) = Len(CONFIG_WRITES) + 1
    /\ archive.log[Len(archive.log)] = "write_prompt"
    /\ Inside(archive.files, SSOT_DIR) = {OldSkill}

\* an entry name read as a path, slashes and backslashes both separating
NamePath(name) == Walk(<<>>, Components(replace(name, "\\", "/")))

\* the name neither is absolute nor climbs above the archive root
SafelyEnclosed(name) ==
    /\ ~IsAbsolute(replace(name, "\\", "/"))
    /\ WalkDepth(Components(replace(name, "\\", "/")), 0) >= 0

\* the path of the name lies below cc-switch-backup/app/skills/
LiesUnderSkills(name) ==
    /\ IsPrefix(Components(SKILLS_PREFIX), NamePath(name))
    /\ Len(NamePath(name)) > Len(Components(SKILLS_PREFIX))

\* the regular files the archive stores below cc-switch-backup/app/skills/,
\* as places below the skills directory
StoredSkills(zip) ==
    { Moved(NamePath(e.name), Components(SKILLS_PREFIX), SSOT_DIR) :
        e \in { x \in Range(zip.entries) :
                  ~is_dir(x.name) /\ SafelyEnclosed(x.name) /\ LiesUnderSkills(x.name) } }

\* after a successful restore the skills directory holds exactly the stored skills
SkillsAreTheStoredOnes ==
    archive.result = RestoreOk(TRUE) =>
        Inside(archive.files, SSOT_DIR) = StoredSkills(archive.zip)

\* no file is ever created for an entry that is not safely enclosed or lies
\* outside the skills prefix
OutsidersNeverWritten ==
    \A c \in archive.created :
        /\ SafelyEnclosed(archive.zip.entries[c.idx].name)
        /\ LiesUnderSkills(archive.zip.entries[c.idx].name)

\* an error while extracting into the temporary directory leaves the skills
\* directory as it was
ExtractionErrorKeepsSkills ==
    archive.failed \in {"tempdir", "by_index", "create out dir", "copy"} =>
        Inside(archive.files, SSOT_DIR) = {OldSkill}

(***************************************************************************)
(* C24.  After a successful full restore the skills directory contains     *)
(*   exactly the regular files the archive stores under                    *)
(*   cc-switch-backup/app/skills/ (none when the archive stores none: the  *)
(*   old content is removed); no file is written for an entry whose name   *)
(*   is not safely enclosed or lies outside that prefix; and an error      *)
(*   while extracting into the temporary directory leaves the existing     *)
(*   skills directory unchanged.                                           *)
(***************************************************************************)
C24_SkillsReplacedExactly ==
    /\ SkillsAreTheStoredOnes
    /\ OutsidersNeverWritten
    /\ ExtractionErrorKeepsSkills

(***************************************************************************)
(* upload_config_backup_to_webdav (commands/import_export.rs), with        *)
(* ensure_webdav_directories and check_collection_exists.                  *)
(*   request   the WebDavTransferRequest                                   *)
(*   prepared  what prepare_webdav_request made of it                      *)
(*   pc        the statement about to run, "Returned" after the return     *)
(*   i         the directory URL the loop is at                            *)
(*   mkcol     the status of the MKCOL just answered with 403 or 409       *)
(*   sent      the requests sent so far, each with the status of its       *)
(*             response; NoResponse when send() failed                     *)
(*   result    "Pending", then "Ok" or "Err"                               *)
(* The server and the network decide every response.                       *)
(***************************************************************************)
MaxDepth == 3

NoResponse == 0

\* StatusCode::is_success
is_success(status) == status \in 200..299

MkcolAnswers == {NoResponse, 201, 204, 301, 302, 405, 403, 409, 404, 500}

PropfindAnswers == {NoResponse, 207, 200, 404, 403}

PutAnswers == {NoResponse, 201, 204, 403, 507}

\* any response but an error lets the loop go on
AnyStatus(status) == TRUE

\* status.is_success() || matches!(status.as_u16(), 200 | 204 | 301 | 302 | 405)
MkcolAccepted(status) == is_success(status) \/ status \in {200, 204, 301, 302, 405}

\* matches!(status.as_u16(), 403 | 409): worth asking whether the collection exists
MkcolDoubtful(status) == status \in {403, 409}

\* check_collection_exists(..).await.unwrap_or(false): a PROPFIND that fails counts as "no"
check_collection_exists(status) ==
    IF status = NoResponse THEN FALSE ELSE is_success(status) \/ status = 207

SegmentNames == <<"a", "b", "c", "d", "e">>

\* the remote directory a/b/c.. of a given depth
RemoteDirOfDepth(n) ==
    IF n = 0 THEN None
    ELSE Some(Concat([i \in 1..n |-> IF i = 1 THEN <<SegmentNames[i]>>
                                      ELSE <<"/", SegmentNames[i]>>]))

WebDavBase ==
    [blank |-> FALSE, parses |-> TRUE, scheme |-> "https", host |-> "dav.example.com",
     path |-> <<"/", "w", "e", "b", "d", "a", "v">>, has_query |-> FALSE,
     has_fragment |-> FALSE]

BlankUrl ==
    [blank |-> TRUE, parses |-> FALSE, scheme |-> "", host |-> "", path |-> <<>>,
     has_query |-> FALSE, has_fragment |-> FALSE]

UploadRequests ==
    { [url |-> WebDavBase, remote_dir |-> RemoteDirOfDepth(n), file_name |-> None,
       username |-> c, password |-> c] :
        n \in 0..MaxDepth, c \in {None, Some(<<"u">>)} }
    \cup { [url |-> BlankUrl, remote_dir |-> Some(<<"a">>), file_name |-> None,
            username |-> None, password |-> None],
           [url |-> WebDavBase, remote_dir |-> Some(<<".", ".">>), file_name |-> None,
            username |-> None, password |-> None] }

Sent(method, url, status) == [method |-> method, url |-> url, status |-> status]

UploadInit ==
    /\ HookIdle
    /\ call = Idle /\ runs = Idle /\ lifecycle = Idle /\ restore = Idle
    /\ archive = Idle /\ download = Idle
    /\ upload \in { [request |-> r, prepared |-> NoPrepared, pc |-> "Prepare", i |-> 1,
                     mkcol |-> NoResponse, sent |-> <<>>, result |-> "Pending"] :
                      r \in UploadRequests }

NotUpload == <<HookVars, call, runs, lifecycle, restore, archive, download>>

UploadErr(u) == [u EXCEPT !.pc = "Returned", !.result = "Err"]

\* the loop goes on to the next directory URL, or ensure_webdav_directories returns Ok(())
NextDirectory(u) ==
    IF u.i < Len(u.prepared.directory_urls)
    THEN [u EXCEPT !.i = @ + 1, !.pc = "Mkcol"]
    ELSE [u EXCEPT !.pc = "Put"]

\* let prepared = prepare_webdav_request(request).map_err(..)?;
PrepareUpload ==
    /\ upload.pc = "Prepare"
    /\ LET made == prepare_webdav_request(upload.request)
       IN  upload' = IF made.ok
                     THEN [upload EXCEPT !.pc = "Build", !.prepared = made.prepared]
                     ELSE UploadErr(upload)
    /\ UNCHANGED NotUpload

\* build_full_backup_archive in spawn_blocking, then reqwest::Client::builder()..build()
BuildBackupAndClient ==
    /\ upload.pc = "Build"
    /\ \E built \in BOOLEAN :
          upload' = IF built THEN [upload EXCEPT !.pc = "Ensure"] ELSE UploadErr(upload)
    /\ UNCHANGED NotUpload

\* if prepared.directory_urls.is_empty() { return Ok(()); }
EnterEnsureDirectories ==
    /\ upload.pc = "Ensure"
    /\ upload' = IF upload.prepared.directory_urls = <<>>
                 THEN [upload EXCEPT !.pc = "Put"]
                 ELSE [upload EXCEPT !.pc = "Mkcol", !.i = 1]
    /\ UNCHANGED NotUpload

\* one turn of `for collection_url in &prepared.directory_urls` up to the
\* question whether a 403/409 collection exists
SendMkcol ==
    /\ upload.pc = "Mkcol"
    /\ \E status \in MkcolAnswers :
          LET collection_url == upload.prepared.directory_urls[upload.i]
              u == [upload EXCEPT !.sent = Append(@, Sent("MKCOL", collection_url, status))]
          IN  upload' =
                CASE status = NoResponse -> UploadErr(u)
                  [] status # NoResponse /\ MkcolAccepted(status) -> NextDirectory(u)
                  [] status # NoResponse /\ ~MkcolAccepted(status) /\ MkcolDoubtful(status) ->
                         [u EXCEPT !.pc = "Propfind", !.mkcol = status]
                  [] OTHER -> UploadErr(u)
    /\ UNCHANGED NotUpload

\* check_collection_exists(client, collection_url, ..): PROPFIND with Depth: 0;
\* continue when it says the collection exists, else the MKCOL error is returned
SendPropfind ==
    /\ upload.pc = "Propfind"
    /\ \E status \in PropfindAnswers :
          LET collection_url == upload.prepared.directory_urls[upload.i]
              u == [upload EXCEPT !.sent = Append(@, Sent("PROPFIND", collection_url, status)),
                                  !.mkcol = NoResponse]
          IN  upload' = IF check_collection_exists(status)
                        THEN NextDirectory(u)
                        ELSE UploadErr(u)
    /\ UNCHANGED NotUpload

\* client.put(prepared.target_url).body(backup_bytes) .. send; a status that is
\* not a success is an error
SendPut ==
    /\ upload.pc = "Put"
    /\ \E status \in PutAnswers :
          LET u == [upload EXCEPT !.sent = Append(@, Sent("PUT", upload.prepared.target_url,
                                                          status))]
          IN  upload' = IF status # NoResponse /\ is_success(status)
                        THEN [u EXCEPT !.pc = "Returned", !.result = "Ok"]
                        ELSE UploadErr(u)
    /\ UNCHANGED NotUpload

UploadNext ==
    \/ PrepareUpload
    \/ BuildBackupAndClient
    \/ EnterEnsureDirectories
    \/ SendMkcol
    \/ SendPropfind
    \/ SendPut

UploadSpec == UploadInit /\ [][UploadNext]_vars

\* the positions in sent of the requests of one method
Positions(sent, method) == { p \in 1..Len(sent) : sent[p].method = method }

\* the p-th request is a MKCOL the server accepted: 2xx, 301, 302 or 405, or
\* 403/409 followed by a PROPFIND of the same URL answered with success or 207
DirectoryAccepted(sent, p) ==
    \/ sent[p].status \in (200..299) \cup {301, 302, 405}
    \/ /\ sent[p].status \in {403, 409}
       /\ p < Len(sent)
       /\ sent[p + 1] \in { Sent("PROPFIND", sent[p].url, s) : s \in (200..299) \cup {207} }

\* the p-th request is a 403/409 MKCOL whose PROPFIND has not been sent yet
DirectoryPending(u, p) ==
    /\ u.sent[p].status \in {403, 409}
    /\ p = Len(u.sent)
    /\ u.pc = "Propfind"

(***************************************************************************)
(* C23.  During a WebDAV upload the MKCOL requests go to the directory     *)
(*   URLs one each, shallowest first; a directory is attempted only after  *)
(*   every shallower one was accepted (2xx, 301, 302, 405, or 403/409      *)
(*   confirmed by a PROPFIND answering success or 207); the first          *)
(*   directory that is not accepted ends the upload with an error and no   *)
(*   further request; the PUT of the backup is sent once, to the target    *)
(*   URL, and only after all directories were accepted.                    *)
(***************************************************************************)
C23_DirectoriesBeforePut ==
    LET sent == upload.sent
        dirs == upload.prepared.directory_urls
        mk == Positions(sent, "MKCOL")
        puts == Positions(sent, "PUT")
        Nth(p) == Cardinality({ q \in mk : q <= p })
    IN  /\ Cardinality(mk) <= Len(dirs)
        /\ \A p \in mk : sent[p].url = dirs[Nth(p)]
        /\ \A i \in 1..Len(dirs), j \in 1..Len(dirs) :
              i < j => Len(dirs[i].path) < Len(dirs[j].path)
        /\ \A p \in mk, q \in mk : p < q => DirectoryAccepted(sent, p)
        /\ \A p \in Positions(sent, "PROPFIND") :
              p > 1 /\ sent[p - 1] \in { Sent("MKCOL", sent[p].url, s) : s \in {403, 409} }
        /\ \A p \in mk :
              ~DirectoryAccepted(sent, p) /\ ~DirectoryPending(upload, p) =>
                  /\ upload.pc = "Returned" /\ upload.result = "Err"
                  /\ \A q \in 1..Len(sent) : q <= p + 1
                  /\ puts = {}
        /\ Cardinality(puts) <= 1
        /\ \A p \in puts :
              /\ p = Len(sent)
              /\ sent[p].url = upload.prepared.target_url
              /\ Cardinality(mk) = Len(dirs)
              /\ \A q \in mk : DirectoryAccepted(sent, q)
        /\ upload.result = "Ok" => puts # {}

\* three directories: the first answered 403 and was confirmed by PROPFIND 207,
\* the second was created, the third was refused: the upload ended with the
\* error and neither a further MKCOL nor the PUT was sent
C23_Witness ==
    /\ upload.pc = "Returned"
    /\ upload.result = "Err"
    /\ Len(upload.prepared.directory_urls) = 3
    /\ Len(upload.sent) = 4
    /\ upload.sent[1] = Sent("MKCOL", upload.prepared.directory_urls[1], 403)
    /\ upload.sent[2] = Sent("PROPFIND", upload.prepared.directory_urls[1], 207)
    /\ upload.sent[3] = Sent("MKCOL", upload.prepared.directory_urls[2], 201)
    /\ upload.sent[4] = Sent("MKCOL", upload.prepared.directory_urls[3], 404)

(***************************************************************************)
(* download_config_backup_from_webdav (commands/import_export.rs).  The    *)
(* restore it spawns is restore_backup_from_bytes as modelled above,       *)
(* running on the variable restore; nothing else in the command touches    *)
(* the database or a file.                                                 *)
(*   request, prepared  as for the upload                                  *)
(*   pc        the statement about to run, "Returned" after the return     *)
(*   sent      the GET with the status of its response, once sent          *)
(*   read      "unread", "failed" (response.bytes() failed) or "read"      *)
(*   body      backup_bytes                                                *)
(*   result    "Pending", then "Ok" or "Err"; fullRestore is the flag of   *)
(*             the success response                                        *)
(***************************************************************************)
GetAnswers == {NoResponse, 200, 204, 206, 302, 401, 404, 500}

DownloadBodies ==
    { <<>>, <<0>>, <<ByteP, ByteK, 3>>, <<ByteP, ByteK, 3, 4>>, <<ByteP, ByteK, 5, 6, 0>> }

DownloadRequests ==
    { r \in UploadRequests : r.remote_dir \in {None, Some(<<"a">>), Some(<<".", ".">>)} }

\* restore_backup_from_bytes has not been called
RestoreNotCalled ==
    [bytes |-> <<>>, pc |-> "NotCalled", result |-> RestorePending,
     archive_restores |-> 0, sql_imports |-> 0, finalized |-> 0]

DownloadInit ==
    /\ HookIdle
    /\ call = Idle /\ runs = Idle /\ lifecycle = Idle
    /\ archive = Idle /\ upload = Idle
    /\ restore = RestoreNotCalled
    /\ download \in { [request |-> r, prepared |-> NoPrepared, pc |-> "Prepare",
                       sent |-> <<>>, read |-> "unread", body |-> <<>>,
                       result |-> "Pending", fullRestore |-> FALSE] :
                        r \in DownloadRequests }

NotDownload == <<HookVars, call, runs, lifecycle, archive, upload>>

DownloadErr(d) == [d EXCEPT !.pc = "Returned", !.result = "Err"]

\* a body of any length is handed to the restore
AnyBody(bytes) == TRUE

\* backup_bytes.is_empty() is the error
BodyAccepted(bytes) == bytes # <<>>

\* let prepared = prepare_webdav_request(request).map_err(..)?; Client::builder()..build()?
PrepareDownload ==
    /\ download.pc = "Prepare"
    /\ LET made == prepare_webdav_request(download.request)
       IN  \E built \in BOOLEAN :
             download' = IF made.ok /\ built
                         THEN [download EXCEPT !.pc = "Get", !.prepared = made.prepared]
                         ELSE DownloadErr(download)
    /\ UNCHANGED <<NotDownload, restore>>

\* client.get(prepared.target_url) .. send; if !status.is_success() { return Err(..) }
SendGet ==
    /\ download.pc = "Get"
    /\ \E status \in GetAnswers :
          LET d == [download EXCEPT !.sent = <<Sent("GET", download.prepared.target_url,
                                                    status)>>]
          IN  download' = IF status # NoResponse /\ is_success(status)
                          THEN [d EXCEPT !.pc = "Body"]
                          ELSE DownloadErr(d)
    /\ UNCHANGED <<NotDownload, restore>>

\* let backup_bytes = response.bytes().await?.to_vec(); if backup_bytes.is_empty() { return Err(..) }
ReadBody ==
    /\ download.pc = "Body"
    /\ \E arrived \in BOOLEAN, bytes \in DownloadBodies :
          download' =
            IF ~arrived THEN DownloadErr([download EXCEPT !.read = "failed"])
            ELSE IF ~BodyAccepted(bytes)
            THEN DownloadErr([download EXCEPT !.read = "read", !.body = bytes])
            ELSE [download EXCEPT !.read = "read", !.body = bytes, !.pc = "Spawn"]
    /\ UNCHANGED <<NotDownload, restore>>

\* spawn_blocking(move || restore_backup_from_bytes(&db, &backup_bytes))
SpawnRestore ==
    /\ download.pc = "Spawn"
    /\ download' = [download EXCEPT !.pc = "Await"]
    /\ restore' = [RestoreNotCalled EXCEPT !.bytes = download.body, !.pc = "Start"]
    /\ UNCHANGED NotDownload

\* the blocking task panics before restore_backup_from_bytes returns
RestorePanics ==
    /\ download.pc = "Await"
    /\ restore.pc \notin {"Returned", "Panicked"}
    /\ restore' = [restore EXCEPT !.pc = "Panicked"]
    /\ UNCHANGED <<NotDownload, download>>

\* .await.map_err(..)?.map_err(..)?; Ok(json!({ "success": true, .. }))
AwaitRestore ==
    /\ download.pc = "Await"
    /\ restore.pc \in {"Returned", "Panicked"}
    /\ download' = IF restore.pc = "Returned" /\ restore.result.tag = "Ok"
                   THEN [download EXCEPT !.pc = "Returned", !.result = "Ok",
                                         !.fullRestore = restore.result.full_restore]
                   ELSE DownloadErr(download)
    /\ UNCHANGED <<NotDownload, restore>>

DownloadNext ==
    \/ PrepareDownload
    \/ SendGet
    \/ ReadBody
    \/ SpawnRestore
    \/ RestorePanics
    \/ AwaitRestore
    \/ DispatchRestore
    \/ ArchiveRestoreReturns
    \/ SqlImportReturns
    \/ FinalizeSqlRestore

DownloadSpec == DownloadInit /\ [][DownloadNext]_vars

\* the GET was answered with a success status
GetSucceeded(d) == d.sent # <<>> /\ d.sent[1].status \in 200..299

(***************************************************************************)
(* C25.  download_config_backup_from_webdav starts a restore only when the *)
(*   GET was answered with a success status and the body is not empty, and *)
(*   then on exactly that body.  After a transport error, a status that is *)
(*   not a success or an empty body the command returns an error without   *)
(*   having called restore_backup_from_bytes, so the database and all      *)
(*   files are as before.  The command reports success only when           *)
(*   restore_backup_from_bytes returned Ok, and passes on its full_restore *)
(*   flag.                                                                 *)
(***************************************************************************)
C25_RestoreOnlyAfterGoodDownload ==
    /\ restore # RestoreNotCalled =>
          /\ GetSucceeded(download)
          /\ download.read = "read" /\ download.body # <<>>
          /\ restore.bytes = download.body
    /\ download.pc = "Returned"
          /\ (~GetSucceeded(download) \/ download.read # "read" \/ download.body = <<>>) =>
          /\ download.result = "Err"
          /\ restore = RestoreNotCalled
    /\ download.result = "Ok" =>
          /\ download.pc = "Returned"
          /\ restore.pc = "Returned"
          /\ restore.result.tag = "Ok"
          /\ download.fullRestore = restore.result.full_restore
    /\ download.pc = "Returned" => download.result \in {"Ok", "Err"}

\* the GET was answered 200 with an empty body: the error was returned and the
\* restore was never called
C25_Witness ==
    /\ download.pc = "Returned"
    /\ download.result = "Err"
    /\ download.sent # <<>> /\ download.sent[1].status = 200
    /\ download.read = "read"
    /\ download.body = <<>>
    /\ restore = RestoreNotCalled

====
